---- MODULE Spec2Model ----
(***************************************************************************)
(* Verification model of the oscilloscope beam renderer repository.        *)
(*                                                                         *)
(* Part I   - the ring-buffer audio worklet (VertexAudioProcessor):        *)
(*            per-channel ring buffers fed by port messages and drained by *)
(*            process().                                                  *)
(* Part II  - the shared-memory ring buffer read by DebugAudioEngine's     *)
(*            peek-style readers.                                          *)
(* Part III - the Woscope transport handlers, snapshot capture and the     *)
(*            WoscopeRenderer frame callback.                              *)
(*                                                                         *)
(* Sample values are float32-representable numbers, written as integers,   *)
(* so a store into a Float32Array keeps the value.                         *)
(***************************************************************************)
EXTENDS Integers, Sequences, FiniteSets, TLC

(***************************************************************************)
(* Bounds of the model.                                                    *)
(***************************************************************************)
\* samples handed to one channel of the worklet over a whole run
MaxSerial == 4
\* cap on the underrun counter
MaxUnderruns == 1

\* longest per-channel array of one message
MaxBatch == MaxSerial - 1

(***************************************************************************)
(* Part I: VertexAudioProcessor (ring-buffer worklet)                      *)
(***************************************************************************)
VARIABLES channels, defaultCapacity, globalGain, isPlaying, underruns,
          droppedSamples, serial

workletVars == <<channels, defaultCapacity, globalGain, isPlaying, underruns,
                 droppedSamples, serial>>

\* Part II: DebugAudioEngine's shared ring buffer and its readers
VARIABLES sabReady, ctrl, sabSamples, sabDropped, analysers, sampleBuf,
          lastPeek, reads, reader

sabVars == <<sabReady, ctrl, sabSamples, sabDropped, analysers, sampleBuf,
             lastPeek, reads, reader>>

\* Part III: Woscope, useAudioAnalyser and WoscopeRenderer
VARIABLES audioData, analyserPull, analyserLeft, analyserRight, audio,
          woscopeIsPlaying, currentTime, snapshot, cells, hasAttributes,
          drawRange, uIntensity, lastStep, rendererConfig

scopeVars == <<audioData, analyserPull, analyserLeft, analyserRight, audio,
               woscopeIsPlaying, currentTime, snapshot, cells, hasAttributes,
               drawRange, uIntensity, lastStep, rendererConfig>>

\* Part IV: the last call of the geometry generator, and the events the media
\* element has queued for Woscope's listeners
VARIABLES gen, transport

vars == <<workletVars, sabVars, scopeVars, gen, transport>>

otherThanWorklet == <<sabVars, scopeVars, gen, transport>>

\* this._channelNames
channelNames == <<"screenX", "screenY", "screenZ", "r", "g", "b">>

Names == {channelNames[i] : i \in 1..Len(channelNames)}

\* the channels that the messages of the model carry data for
ActiveNames == {"screenX", "screenY"}

\* initial this.defaultCapacity
InitialDefaultCapacity == 8192

Gains == {1, 2}

\* capacities asked for by initRingBuffers (0: no capacity in the message)
CapacityRequests == {0, 1, 2}

\* capacities asked for by initRingBuffers, powers of two and others, up to
\* the ones whose power of two 1 << k cannot hold
WideRequests == {1, 3, 4, 5, 2 ^ 30, 2 ^ 30 + 1, 2147483647}

\* const frameCount = output[0].length: the render quantum, 128 in a browser
FrameCount == 2

\* a Float32Array is kept sparsely: the slots stored so far; the others read 0
EmptyBuffer == [i \in {} |-> 0]

ReadSlot(buffer, i) == IF i \in DOMAIN buffer THEN buffer[i] ELSE 0

StoreSlot(buffer, i, v) ==
  [j \in (DOMAIN buffer) \cup {i} |-> IF j = i THEN v ELSE buffer[j]]

\* a & b on non-negative 32-bit integers
RECURSIVE BitAnd(_, _)
BitAnd(a, b) ==
  IF a = 0 \/ b = 0 THEN 0
  ELSE (a % 2) * (b % 2) + 2 * BitAnd(a \div 2, b \div 2)

\* 32 - Math.clz32(x) for 0 <= x < 2^31
RECURSIVE BitLength(_)
BitLength(x) == IF x = 0 THEN 0 ELSE 1 + BitLength(x \div 2)

\* 1 << k on 32-bit integers
ShiftLeftOne(k) ==
  IF k % 32 = 31 THEN (-2147483647) - 1 ELSE 2 ^ (k % 32)

\* a capacity taken as it is asked for
nextPow2Unrounded(n) == n

nextPow2(n) == IF n <= 2 THEN 2 ELSE ShiftLeftOne(BitLength(n - 1))

Max(a, b) == IF a >= b THEN a ELSE b

Min(a, b) == IF a <= b THEN a ELSE b

\* the channel record of the constructor
NewChannel ==
  [allocated |-> FALSE, buffer |-> EmptyBuffer, capacity |-> 0,
   writeIndex |-> 0, readIndex |-> 0, gain |-> 1, lastSample |-> 0]

ensureBuffer(ch, defCap, minCapacity) ==
  IF ~ch.allocated \/ ch.capacity < minCapacity
  THEN LET target == nextPow2(Max(defCap, minCapacity))
           available == ch.writeIndex - ch.readIndex
           toCopy == Min(available, target)
       IN IF ch.allocated
          THEN [ch EXCEPT
                 !.buffer = [i \in 0..(toCopy - 1) |->
                               ReadSlot(ch.buffer,
                                        BitAnd(ch.readIndex + (available - toCopy) + i,
                                               ch.capacity - 1))],
                 !.capacity = target,
                 !.readIndex = 0,
                 !.writeIndex = toCopy]
          ELSE [ch EXCEPT !.allocated = TRUE, !.buffer = EmptyBuffer,
                          !.capacity = target, !.writeIndex = 0, !.readIndex = 0]
  ELSE ch

\* appendOne without the drop of the oldest sample
appendOneNoDrop(acc, sample) ==
  LET ch == acc.ch
  IN [ch |-> [ch EXCEPT
                !.buffer = StoreSlot(ch.buffer,
                                     BitAnd(ch.writeIndex, ch.capacity - 1), sample),
                !.writeIndex = ch.writeIndex + 1,
                !.lastSample = sample],
      dropped |-> acc.dropped]

\* appendOne without the count of the dropped sample
appendOneUncounted(acc, sample) ==
  LET ch == acc.ch
      w1 == ch.writeIndex + 1
      over == w1 - ch.readIndex > ch.capacity
  IN [ch |-> [ch EXCEPT
                !.buffer = StoreSlot(ch.buffer,
                                     BitAnd(ch.writeIndex, ch.capacity - 1), sample),
                !.writeIndex = w1,
                !.readIndex = IF over THEN w1 - ch.capacity ELSE @,
                !.lastSample = sample],
      dropped |-> acc.dropped]

\* appendOne dropping one sample too many
appendOneOffByOne(acc, sample) ==
  LET ch == acc.ch
      w1 == ch.writeIndex + 1
      over == w1 - ch.readIndex > ch.capacity
  IN [ch |-> [ch EXCEPT
                !.buffer = StoreSlot(ch.buffer,
                                     BitAnd(ch.writeIndex, ch.capacity - 1), sample),
                !.writeIndex = w1,
                !.readIndex = IF over THEN w1 - ch.capacity + 1 ELSE @,
                !.lastSample = sample],
      dropped |-> acc.dropped + (IF over THEN 1 ELSE 0)]

\* one turn of the loop of appendSamples; acc is [ch, dropped]
appendOne(acc, sample) ==
  LET ch == acc.ch
      mask == ch.capacity - 1
      w1 == ch.writeIndex + 1
      over == w1 - ch.readIndex > ch.capacity
  IN [ch |-> [ch EXCEPT
                !.buffer = StoreSlot(ch.buffer, BitAnd(ch.writeIndex, mask), sample),
                !.writeIndex = w1,
                !.readIndex = IF over THEN w1 - ch.capacity ELSE @,
                !.lastSample = sample],
      dropped |-> acc.dropped + (IF over THEN 1 ELSE 0)]

RECURSIVE appendLoop(_, _, _)
appendLoop(acc, samples, i) ==
  IF i > Len(samples) THEN acc
  ELSE appendLoop(appendOne(acc, samples[i]), samples, i + 1)

\* appendSamples on one channel; st is [channels, dropped]
appendSamples(st, defCap, name, samples) ==
  IF Len(samples) = 0 THEN st
  ELSE LET ch0 == st.channels[name]
           ch1 == ensureBuffer(ch0, defCap,
                               IF ch0.capacity # 0 THEN ch0.capacity ELSE Len(samples))
           done == appendLoop([ch |-> ch1, dropped |-> st.dropped], samples, 1)
       IN [channels |-> [st.channels EXCEPT ![name] = done.ch],
           dropped |-> done.dropped]

getAvailable(ch) == ch.writeIndex - ch.readIndex

\* the first loop of handleAppend: the common batch length, 0 for "no data",
\* -1 for a length mismatch
RECURSIVE batchLength(_, _, _)
batchLength(vertexData, i, batchLen) ==
  IF i > Len(channelNames) THEN batchLen
  ELSE LET l == Len(vertexData[channelNames[i]])
       IN IF l = 0 THEN batchLength(vertexData, i + 1, batchLen)
          ELSE IF batchLen = 0 THEN batchLength(vertexData, i + 1, l)
          ELSE IF l # batchLen THEN -1
          ELSE batchLength(vertexData, i + 1, batchLen)

RECURSIVE appendEach(_, _, _, _, _)
appendEach(st, defCap, vertexData, batchLen, i) ==
  IF i > Len(channelNames) THEN st
  ELSE LET name == channelNames[i]
           arr == vertexData[name]
       IN appendEach(IF Len(arr) = batchLen THEN appendSamples(st, defCap, name, arr)
                     ELSE st,
                     defCap, vertexData, batchLen, i + 1)

handleAppend(st, defCap, vertexData) ==
  LET batchLen == batchLength(vertexData, 1, 0)
  IN IF batchLen <= 0 THEN st
     ELSE appendEach(st, defCap, vertexData, batchLen, 1)

RECURSIVE replaceEach(_, _, _, _)
replaceEach(st, defCap, vertexData, i) ==
  IF i > Len(channelNames) THEN st
  ELSE LET name == channelNames[i]
           arr == vertexData[name]
           reset == [st EXCEPT !.channels[name] =
                       [@ EXCEPT !.allocated = FALSE, !.buffer = EmptyBuffer,
                                 !.capacity = 0, !.writeIndex = 0, !.readIndex = 0]]
       IN replaceEach(IF Len(arr) # 0 THEN appendSamples(reset, defCap, name, arr)
                      ELSE st,
                      defCap, vertexData, i + 1)

handleReplace(st, defCap, vertexData) == replaceEach(st, defCap, vertexData, 1)

(***************************************************************************)
(* Messages: vertexData maps every channel name to an array, the empty     *)
(* array standing for a missing one.  The samples of a channel are         *)
(* numbered: the k-th sample handed to a channel over the run has value k, *)
(* and serial counts them.                                                 *)
(***************************************************************************)
Lengths == [Names -> 0..MaxBatch]

ActiveLengths == {len \in Lengths : \A n \in Names \ ActiveNames : len[n] = 0}

Payload(len, base) == [n \in Names |-> [k \in 1..len[n] |-> base[n] + k]]

StateOfProcessor == [channels |-> channels, dropped |-> droppedSamples]

InitRingBuffers(capacity) ==
  /\ defaultCapacity' = IF capacity # 0 THEN nextPow2(capacity) ELSE defaultCapacity
  /\ UNCHANGED <<channels, globalGain, isPlaying, underruns, droppedSamples, serial>>
  /\ UNCHANGED otherThanWorklet

AppendVertexData(len) ==
  /\ \A n \in Names : serial[n] + len[n] <= MaxSerial
  /\ LET st == handleAppend(StateOfProcessor, defaultCapacity, Payload(len, serial))
     IN /\ channels' = st.channels
        /\ droppedSamples' = st.dropped
  /\ serial' = [n \in Names |-> serial[n] + len[n]]
  /\ UNCHANGED <<defaultCapacity, globalGain, isPlaying, underruns>>
  /\ UNCHANGED otherThanWorklet

UpdateVertexData(len) ==
  /\ \A n \in Names : serial[n] + len[n] <= MaxSerial
  /\ LET st == handleReplace(StateOfProcessor, defaultCapacity, Payload(len, serial))
     IN /\ channels' = st.channels
        /\ droppedSamples' = st.dropped
  /\ serial' = [n \in Names |-> serial[n] + len[n]]
  /\ UNCHANGED <<defaultCapacity, globalGain, isPlaying, underruns>>
  /\ UNCHANGED otherThanWorklet

SetChannelGain(name, gain) ==
  /\ channels' = [channels EXCEPT ![name].gain = gain]
  /\ UNCHANGED <<defaultCapacity, globalGain, isPlaying, underruns,
                 droppedSamples, serial>>
  /\ UNCHANGED otherThanWorklet

SetGlobalGain(gain) ==
  /\ globalGain' = gain
  /\ UNCHANGED <<channels, defaultCapacity, isPlaying, underruns,
                 droppedSamples, serial>>
  /\ UNCHANGED otherThanWorklet

SetPlaying(playing) ==
  /\ isPlaying' = playing
  /\ UNCHANGED <<channels, defaultCapacity, globalGain, underruns,
                 droppedSamples, serial>>
  /\ UNCHANGED otherThanWorklet

\* one turn of the channel loop of process() that reads the newest unread
\* samples instead of the oldest
processChannelNewest(acc, gGain, outputChannel) ==
  LET name == channelNames[outputChannel]
      channel == acc.channels[name]
      available == channel.writeIndex - channel.readIndex
      toRead == Min(FrameCount, available)
      mask == channel.capacity - 1
      outBuf == [i \in 1..FrameCount |->
                   IF i <= toRead
                   THEN ReadSlot(channel.buffer,
                                 BitAnd(channel.readIndex + (available - toRead)
                                          + (i - 1), mask))
                        * channel.gain * gGain
                   ELSE 0]
  IN IF ~channel.allocated
     THEN [acc EXCEPT !.out = Append(@, [i \in 1..FrameCount |-> 0])]
     ELSE [channels |-> [acc.channels EXCEPT ![name].readIndex = @ + toRead],
           underruns |-> acc.underruns + (IF toRead < FrameCount THEN 1 ELSE 0),
           out |-> Append(acc.out, outBuf)]

\* one turn of the channel loop of process(); acc is [channels, underruns, out]
processChannel(acc, gGain, outputChannel) ==
  LET name == channelNames[outputChannel]
      channel == acc.channels[name]
      available == channel.writeIndex - channel.readIndex
      toRead == Min(FrameCount, available)
      mask == channel.capacity - 1
      outBuf == [i \in 1..FrameCount |->
                   IF i <= toRead
                   THEN ReadSlot(channel.buffer,
                                 BitAnd(channel.readIndex + (i - 1), mask))
                        * channel.gain * gGain
                   ELSE 0]
  IN IF ~channel.allocated
     THEN [acc EXCEPT !.out = Append(@, [i \in 1..FrameCount |-> 0])]
     ELSE [channels |-> [acc.channels EXCEPT ![name].readIndex = @ + toRead],
           underruns |-> acc.underruns + (IF toRead < FrameCount THEN 1 ELSE 0),
           out |-> Append(acc.out, outBuf)]

RECURSIVE processLoop(_, _, _, _)
processLoop(acc, gGain, outputChannel, nOut) ==
  IF outputChannel > Min(nOut, Len(channelNames)) THEN acc
  ELSE processLoop(processChannel(acc, gGain, outputChannel), gGain,
                   outputChannel + 1, nOut)

\* process(inputs, outputs) with outputs[0] holding nOut channels of FrameCount
\* samples, which arrive zero-filled; out is what the call leaves in them
process(chs, und, gGain, playing, nOut) ==
  IF ~playing
  THEN [channels |-> chs, underruns |-> und,
        out |-> [c \in 1..nOut |-> [i \in 1..FrameCount |-> 0]]]
  ELSE LET done == processLoop([channels |-> chs, underruns |-> und, out |-> <<>>],
                               gGain, 1, nOut)
       IN [done EXCEPT !.out = [c \in 1..nOut |->
                                  IF c <= Len(done.out) THEN done.out[c]
                                  ELSE [i \in 1..FrameCount |-> 0]]]

\* channel counts of outputs[0]
OutputCounts == {1, 6}

Process(nOut) ==
  LET done == process(channels, underruns, globalGain, isPlaying, nOut)
  IN /\ done.underruns <= MaxUnderruns
     /\ channels' = done.channels
     /\ underruns' = done.underruns
     /\ UNCHANGED <<defaultCapacity, globalGain, isPlaying, droppedSamples, serial>>
     /\ UNCHANGED otherThanWorklet

WorkletInit ==
  /\ channels = [n \in Names |-> NewChannel]
  /\ defaultCapacity = InitialDefaultCapacity
  /\ globalGain = 1
  /\ isPlaying = FALSE
  /\ underruns = 0
  /\ droppedSamples = 0
  /\ serial = [n \in Names |-> 0]

(***************************************************************************)
(* Part II: DebugAudioEngine (shared ring buffer, peek-style readers)      *)
(*                                                                         *)
(* The SharedArrayBuffer holds controlInts control words followed by       *)
(* sabChannels regions of sabCapacity samples.  The producer is the        *)
(* worklet loaded from /debugAudioProcessor.js; its write is taken from    *)
(* the transport's description: it appends up to one quantum, advances the *)
(* write index by an atomic add and, on overflow, moves the read index     *)
(* forward and counts the samples lost.                                    *)
(***************************************************************************)
\* log2 of the per-channel capacity of the model
SabCapacityBits == 2

\* const capacity = 8192 (a power of two), scaled to the model
sabCapacity == 2 ^ SabCapacityBits

\* const channels = 2
sabChannels == 2

\* const controlInts = 4
controlInts == 4

WRITE_IDX == 0

READ_IDX == 1

\* analysers created by initialize()
AnalyserCount == 6

\* reader calls over a whole run
MaxReads == 1

\* samples the producer writes to each channel over a whole run
MaxWritten == sabCapacity + 2

\* sizes of one producer write (up to one quantum)
Quanta == 1..(sabCapacity - 1)

Consumers == {"DebugWaveformView", "WaveformQuad"}

\* windowSize props of the views
WindowSizes == 1..(sabCapacity + 1)

\* channel props of the views: in range and out of range on both sides
ChannelIndexes == (-1)..sabChannels

\* endSample arguments
EndSamples == (-1)..MaxWritten

\* the value the producer writes at absolute index i of channel c
WrittenSample(c, i) == 10 * (i + 1) + c

\* typed arrays are functions on 0..length-1
Zeros(n) == [i \in 0..(n - 1) |-> 0]

Length(a) == Cardinality(DOMAIN a)

\* TypedArray.prototype.subarray(begin, end) for begin >= 0: a view clamped
\* to the array
subarray(a, begin, end) ==
  LET b == Min(begin, Length(a))
      e == Max(b, Min(end, Length(a)))
  IN [i \in 0..(e - b - 1) |-> a[b + i]]

\* TypedArray.prototype.set(source, offset); the source fits in every call
setFrom(a, source, offset) ==
  [i \in DOMAIN a |-> IF offset <= i /\ i < offset + Length(source)
                      THEN source[i - offset] ELSE a[i]]

\* an atomic load that also advances the read index to the write index
AtomicsLoadConsuming(ia, index) ==
  [value |-> ia[index], ia |-> [ia EXCEPT ![READ_IDX] = ia[WRITE_IDX]]]

\* Atomics.load(ia, index): the value read and the array after the access
AtomicsLoad(ia, index) == [value |-> ia[index], ia |-> ia]

\* getWriteIndex(): [ret, ctrl]
getWriteIndex(ready, ctl) ==
  IF ~ready THEN [ret |-> 0, ctrl |-> ctl]
  ELSE LET ld == AtomicsLoad(ctl, WRITE_IDX)
       IN [ret |-> ld.value, ctrl |-> ld.ia]

\* the copy of getSamplesForChannel once write has been loaded: [ret, out]
copyWindow(samples, write, channelIndex, endSample, out) ==
  LET latestSample == write - 1
      end == IF endSample > latestSample THEN latestSample ELSE endSample
      capacity == sabCapacity
      maxRead == Length(out)
      available == end + 1
      toRead == Min(maxRead, available)
      startSample == end - toRead + 1
      base == channelIndex * capacity
      startIdx == BitAnd(startSample, capacity - 1)
      first == capacity - startIdx
  IN IF latestSample < 0 THEN [ret |-> 0, out |-> out]
     ELSE IF toRead <= 0 THEN [ret |-> 0, out |-> out]
     ELSE IF startIdx + toRead <= capacity
     THEN [ret |-> toRead,
           out |-> setFrom(out, subarray(samples, base + startIdx,
                                         base + startIdx + toRead), 0)]
     ELSE [ret |-> toRead,
           out |-> setFrom(setFrom(out, subarray(samples, base + startIdx,
                                                 base + startIdx + first), 0),
                           subarray(samples, base, base + (toRead - first)),
                           first)]

\* the slots of a store of length elements that subarray(begin, end) views
viewSlots(length, begin, end) ==
  LET b == Min(begin, length)
      e == Max(b, Min(end, length))
  IN [i \in 1..(e - b) |-> b + (i - 1)]

\* the slots of the sample store that the copy of getSamplesForChannel reads,
\* in the order in which out.set stores them in out
copySlots(length, write, channelIndex, endSample, maxRead) ==
  LET latestSample == write - 1
      end == IF endSample > latestSample THEN latestSample ELSE endSample
      capacity == sabCapacity
      available == end + 1
      toRead == Min(maxRead, available)
      startSample == end - toRead + 1
      base == channelIndex * capacity
      startIdx == BitAnd(startSample, capacity - 1)
      first == capacity - startIdx
  IN IF latestSample < 0 \/ toRead <= 0 THEN <<>>
     ELSE IF startIdx + toRead <= capacity
     THEN viewSlots(length, base + startIdx, base + startIdx + toRead)
     ELSE viewSlots(length, base + startIdx, base + startIdx + first)
            \o viewSlots(length, base, base + (toRead - first))

\* getSamplesForChannel with every element one place late
getSamplesForChannelShifted(ready, ctl, samples, channelIndex, endSample, out) ==
  IF ~ready \/ channelIndex < 0 \/ channelIndex >= sabChannels
  THEN [ret |-> 0, out |-> out, ctrl |-> ctl]
  ELSE LET done == copyWindow(samples, ctl[WRITE_IDX], channelIndex,
                              endSample, out)
       IN [ret |-> done.ret,
           out |-> [i \in DOMAIN out |->
                      IF 0 < i /\ i < done.ret THEN done.out[i - 1] ELSE out[i]],
           ctrl |-> ctl]

\* getSamplesForChannel(channelIndex, endSample, out): [ret, out, ctrl]
getSamplesForChannel(ready, ctl, samples, channelIndex, endSample, out) ==
  IF ~ready THEN [ret |-> 0, out |-> out, ctrl |-> ctl]
  ELSE IF channelIndex < 0 \/ channelIndex >= sabChannels
  THEN [ret |-> 0, out |-> out, ctrl |-> ctl]
  ELSE LET ld == AtomicsLoad(ctl, WRITE_IDX)
           done == copyWindow(samples, ld.value, channelIndex, endSample, out)
       IN [ret |-> done.ret, out |-> done.out, ctrl |-> ld.ia]

\* getLatestSamples(channelIndex, out): [ret, out, ctrl]
getLatestSamples(ready, ctl, samples, channelIndex, out) ==
  LET wi == getWriteIndex(ready, ctl)
      end == wi.ret - 1
  IN getSamplesForChannel(ready, wi.ctrl, samples, channelIndex, end, out)

\* Math.max(0, Math.min(255, Math.round(x * 127 + 128))) stored in a Uint8Array
toByte(x) == Max(0, Min(255, x * 127 + 128))

\* getChannelWaveform(channelIndex): [ret, ctrl]; ret is <<>> for null, and
\* byteData is what getByteTimeDomainData leaves in the fallback's array
getChannelWaveform(ready, ctl, samples, count, byteData, channelIndex) ==
  IF ready /\ sabCapacity # 0 /\ channelIndex >= 0 /\ channelIndex < sabChannels
  THEN LET ldw == AtomicsLoad(ctl, WRITE_IDX)
           ldr == AtomicsLoad(ldw.ia, READ_IDX)
           write == ldw.value
           read == ldr.value
           avail == write - read
           toRead == Min(avail, sabCapacity)
           start == BitAnd(read, sabCapacity - 1)
           base == channelIndex * sabCapacity
           part == sabCapacity - start
           outF == IF start + toRead <= sabCapacity
                   THEN setFrom(Zeros(toRead),
                                subarray(samples, base + start,
                                         base + start + toRead), 0)
                   ELSE setFrom(setFrom(Zeros(toRead),
                                        subarray(samples, base + start,
                                                 base + start + part), 0),
                                subarray(samples, base, base + (toRead - part)),
                                part)
       IN IF avail <= 0 THEN [ret |-> <<>>, ctrl |-> ldr.ia]
          ELSE [ret |-> <<[i \in 0..(toRead - 1) |-> toByte(outF[i])]>>,
                ctrl |-> ldr.ia]
  ELSE IF channelIndex < 0 \/ channelIndex >= count
  THEN [ret |-> <<>>, ctrl |-> ctl]
  ELSE [ret |-> <<byteData>>, ctrl |-> ctl]

\* time-domain bytes of an analyser (fftSize bytes, one kept)
ByteFrames == {[i \in 0..0 |-> 128], [i \in 0..0 |-> 200]}

\* the reader call made last: its arguments and what it returned
NoPeek == [op |-> "none", consumer |-> "none", channelIndex |-> 0,
           endSample |-> 0, ret |-> 0, waveform |-> <<>>]

\* a view's frame callback between its steps: the locals of the call in progress
IdleReader == [pc |-> "idle", channelIndex |-> 0, endSample |-> 0, toRead |-> 0,
               startSample |-> 0, i |-> 0, ret |-> 0, expected |-> Zeros(0)]

\* initialize(): allocates the buffer once and creates the analysers
Initialize(created) ==
  /\ ~sabReady
  /\ sabReady' = TRUE
  /\ ctrl' = Zeros(controlInts)
  /\ sabSamples' = Zeros(sabCapacity * sabChannels)
  /\ analysers' = created
  /\ UNCHANGED <<sabDropped, sampleBuf, lastPeek, reads, reader, workletVars, scopeVars, gen, transport>>

\* the producer's write of q samples to every channel, in a run in which it
\* writes at most limit samples
ProducerWriteUpTo(q, limit) ==
  LET write == ctrl[WRITE_IDX]
      read == ctrl[READ_IDX]
      over == Max(0, write + q - read - sabCapacity)
  IN /\ sabReady
     /\ write + q <= limit
     /\ sabSamples' =
          [s \in DOMAIN sabSamples |->
             LET c == s \div sabCapacity
                 hits == {i \in 0..(q - 1) :
                            BitAnd(write + i, sabCapacity - 1) = s % sabCapacity}
             IN IF hits = {} THEN sabSamples[s]
                ELSE WrittenSample(c, write + CHOOSE i \in hits :
                                                \A j \in hits : j <= i)]
     /\ ctrl' = [ctrl EXCEPT ![WRITE_IDX] = write + q, ![READ_IDX] = read + over]
     /\ sabDropped' = sabDropped + over
     /\ UNCHANGED <<sabReady, analysers, sampleBuf, lastPeek, reads, reader,
                    workletVars, scopeVars, gen, transport>>

ProducerWrite(q) == ProducerWriteUpTo(q, MaxWritten)

\* a view is rendered with a windowSize: useMemo allocates its sampleBuf
Mount(k, windowSize) ==
  /\ Length(sampleBuf[k]) # windowSize
  /\ sampleBuf' = [sampleBuf EXCEPT ![k] = Zeros(windowSize)]
  /\ UNCHANGED <<sabReady, ctrl, sabSamples, sabDropped, analysers, lastPeek,
                 reads, reader, workletVars, scopeVars, gen, transport>>

GetWriteIndex ==
  LET done == getWriteIndex(sabReady, ctrl)
  IN /\ reads < MaxReads
     /\ reads' = reads + 1
     /\ ctrl' = done.ctrl
     /\ lastPeek' = [NoPeek EXCEPT !.op = "getWriteIndex", !.ret = done.ret]
     /\ UNCHANGED <<sabReady, sabSamples, sabDropped, analysers, sampleBuf,
                    reader, workletVars, scopeVars, gen, transport>>

GetSamplesForChannel(k, channelIndex, endSample) ==
  LET done == getSamplesForChannel(sabReady, ctrl, sabSamples, channelIndex,
                                   endSample, sampleBuf[k])
  IN /\ reads < MaxReads
     /\ reads' = reads + 1
     /\ ctrl' = done.ctrl
     /\ sampleBuf' = [sampleBuf EXCEPT ![k] = done.out]
     /\ lastPeek' = [op |-> "getSamplesForChannel", consumer |-> k,
                     channelIndex |-> channelIndex, endSample |-> endSample,
                     ret |-> done.ret, waveform |-> <<>>]
     /\ UNCHANGED <<sabReady, sabSamples, sabDropped, analysers, reader,
                    workletVars, scopeVars, gen, transport>>

GetLatestSamples(k, channelIndex) ==
  LET done == getLatestSamples(sabReady, ctrl, sabSamples, channelIndex,
                               sampleBuf[k])
  IN /\ reads < MaxReads
     /\ reads' = reads + 1
     /\ ctrl' = done.ctrl
     /\ sampleBuf' = [sampleBuf EXCEPT ![k] = done.out]
     /\ lastPeek' = [op |-> "getLatestSamples", consumer |-> k,
                     channelIndex |-> channelIndex, endSample |-> 0,
                     ret |-> done.ret, waveform |-> <<>>]
     /\ UNCHANGED <<sabReady, sabSamples, sabDropped, analysers, reader,
                    workletVars, scopeVars, gen, transport>>

GetChannelWaveform(channelIndex, byteData) ==
  LET done == getChannelWaveform(sabReady, ctrl, sabSamples, analysers,
                                 byteData, channelIndex)
  IN /\ reads < MaxReads
     /\ reads' = reads + 1
     /\ ctrl' = done.ctrl
     /\ lastPeek' = [NoPeek EXCEPT !.op = "getChannelWaveform",
                                   !.channelIndex = channelIndex,
                                   !.waveform = done.ret]
     /\ UNCHANGED <<sabReady, sabSamples, sabDropped, analysers, sampleBuf,
                    reader, workletVars, scopeVars, gen, transport>>

SabIdle ==
  /\ sabReady = FALSE
  /\ ctrl = Zeros(0)
  /\ sabSamples = Zeros(0)
  /\ sabDropped = 0
  /\ analysers = 0
  /\ sampleBuf = [k \in Consumers |-> Zeros(0)]
  /\ lastPeek = NoPeek
  /\ reads = 0
  /\ reader = [k \in Consumers |-> IdleReader]

(***************************************************************************)
(* The same readers step by step, next to the producer: the render loop    *)
(* and the audio thread share the buffer and nothing orders the copy of a  *)
(* window against the producer's stores.  A frame of a view is             *)
(*   idle -> called -> copying -> returned -> idle.                        *)
(***************************************************************************)
\* frames started by the views over a whole run
MaxFrames == 2

\* Math.max(0, Math.round(baseLatency * sampleRate) + 32), scaled to the model
latencySamples == 1

\* the channel props of the two views
viewChannel == [k \in Consumers |-> IF k = "DebugWaveformView" THEN 0 ELSE 1]

\* the windowSize props of the views in the interleaved runs
FrameWindowSizes == {sabCapacity \div 2, sabCapacity}

\* the first lines of the frame callbacks: the view reads the write index and
\* works out the end of its window
FrameGetWriteIndex(k, channelIndex) ==
  LET write == getWriteIndex(sabReady, ctrl).ret
  IN /\ reader[k].pc = "idle"
     /\ reads < MaxFrames
     /\ reads' = reads + 1
     /\ reader' = [reader EXCEPT ![k] =
                     [IdleReader EXCEPT
                        !.pc = "called",
                        !.channelIndex = channelIndex,
                        !.endSample = IF k = "DebugWaveformView"
                                      THEN write - latencySamples - 1
                                      ELSE write - 1]]
     /\ UNCHANGED <<sabReady, ctrl, sabSamples, sabDropped, analysers,
                    sampleBuf, lastPeek, workletVars, scopeVars, gen, transport>>

\* getSamplesForChannel up to the copy: the guards, the load of the write
\* index and the bounds of the window
FrameLoadWrite(k) ==
  LET r == reader[k]
      write == AtomicsLoad(ctrl, WRITE_IDX).value
      latestSample == write - 1
      end == IF r.endSample > latestSample THEN latestSample ELSE r.endSample
      toRead == Min(Length(sampleBuf[k]), end + 1)
      none == ~sabReady \/ latestSample < 0 \/ toRead <= 0
  IN /\ r.pc = "called"
     /\ reader' = [reader EXCEPT ![k] =
                     IF none THEN [r EXCEPT !.pc = "returned", !.ret = 0]
                     ELSE [r EXCEPT
                             !.pc = "copying",
                             !.endSample = end,
                             !.toRead = toRead,
                             !.startSample = end - toRead + 1,
                             !.i = 0,
                             !.expected = copyWindow(sabSamples, write,
                                                     r.channelIndex, r.endSample,
                                                     sampleBuf[k]).out]]
     /\ UNCHANGED <<sabReady, ctrl, sabSamples, sabDropped, analysers,
                    sampleBuf, lastPeek, reads, workletVars, scopeVars, gen, transport>>

\* the slot of the sample store that element i of the window is copied from,
\* -1 when the clamped view holds no such element
sourceSlot(r, total) ==
  LET capacity == sabCapacity
      base == r.channelIndex * capacity
      startIdx == BitAnd(r.startSample, capacity - 1)
      first == capacity - startIdx
      slot == IF startIdx + r.toRead <= capacity \/ r.i < first
              THEN base + startIdx + r.i
              ELSE base + (r.i - first)
  IN IF slot < total THEN slot ELSE -1

\* out.set(view): one element of the window moves
FrameCopy(k) ==
  LET r == reader[k]
      slot == sourceSlot(r, Length(sabSamples))
  IN /\ r.pc = "copying"
     /\ r.i < r.toRead
     /\ sampleBuf' = [sampleBuf EXCEPT ![k] =
                        IF slot < 0 THEN @
                        ELSE [@ EXCEPT ![r.i] = sabSamples[slot]]]
     /\ reader' = [reader EXCEPT ![k].i = r.i + 1]
     /\ UNCHANGED <<sabReady, ctrl, sabSamples, sabDropped, analysers,
                    lastPeek, reads, workletVars, scopeVars, gen, transport>>

\* return toRead
FrameReturn(k) ==
  /\ reader[k].pc = "copying"
  /\ reader[k].i = reader[k].toRead
  /\ reader' = [reader EXCEPT ![k].pc = "returned", ![k].ret = reader[k].toRead]
  /\ UNCHANGED <<sabReady, ctrl, sabSamples, sabDropped, analysers, sampleBuf,
                 lastPeek, reads, workletVars, scopeVars, gen, transport>>

\* the rest of the frame callback: the view draws what it got
FrameEnd(k) ==
  /\ reader[k].pc = "returned"
  /\ reader' = [reader EXCEPT ![k] = IdleReader]
  /\ UNCHANGED <<sabReady, ctrl, sabSamples, sabDropped, analysers, sampleBuf,
                 lastPeek, reads, workletVars, scopeVars, gen, transport>>

(***************************************************************************)
(* Part III: Woscope (transport handlers, snapshot capture), the analyser  *)
(* tap of useAudioAnalyser and the frame callback of WoscopeRenderer.      *)
(*                                                                         *)
(* Typed arrays that are held across steps live in cells, named storage,   *)
(* and are referred to by the name of their cell, so that two holders of   *)
(* one array see each other's writes.  Times are counted in ticks,         *)
(* TicksPerSecond to the second.                                           *)
(***************************************************************************)
\* config.nSamples of the model (2048 in Woscope)
NSamples == 3

\* samples of the decoded track
TrackLength == 3

\* ticks of audio.currentTime in one second
TicksPerSecond == 2

\* audioData.sampleRate of the model, in samples per second
SampleRate == 1

\* the last audio.currentTime of the model, in ticks
MaxTicks == 2 * TrackLength + 1

\* values of audio.currentTime: the start, a time between two samples and a
\* time past the end of the track
Times == {0, TicksPerSecond + 1, MaxTicks}

\* createXYConfig({nSamples: 2048, amplitudeScale: 2.0}), nSamples scaled
woscopeConfig == [nSamples |-> NSamples, timeScale |-> 2, amplitudeScale |-> 2,
                  sweep |-> FALSE, swap |-> FALSE]

\* audioData.leftChannel and audioData.rightChannel
leftChannel == [i \in 0..(TrackLength - 1) |-> i + 1]

rightChannel == [i \in 0..(TrackLength - 1) |-> i + 11]

\* audioData.duration, in ticks
duration == (TrackLength * TicksPerSecond) \div SampleRate

\* the nSamples of useAudioAnalyser before the track is decoded (1024, half
\* of the configured 2048), scaled
DefaultTapSamples == 2

\* what getFloatTimeDomainData writes: the newest samples of both channels
SignalFrames(fft) ==
  {[left |-> [i \in 0..(fft - 1) |-> 20 + i],
    right |-> [i \in 0..(fft - 1) |-> 30 + i]],
   [left |-> [i \in 0..(fft - 1) |-> 40 + i],
    right |-> [i \in 0..(fft - 1) |-> 50 + i]]}

\* a quotient kept exact; the denominator 0 stands for a division by zero
Ratio(n, d) == <<n, d>>

\* the width of an entry of the index array (Uint16Array)
IndexBits == 16

\* corner offsets of the two triangles of a quad
TriangleCorners == <<0, 1, 2, 1, 2, 3>>

\* vertex data in the 4-float layout of the older snapshots
vertexFloatsOld(numSegments) == numSegments * 4 * 4

\* new Float32Array(numSegments * 4 * 5)
vertexFloats(numSegments) == numSegments * 4 * 5

\* new Uint16Array(numSegments * 6)
indexCount(numSegments) == numSegments * 6

\* a composite index that keeps the corner only
aIdxCornerOnly(i, corner) == corner

\* baseIdx + corner, with baseIdx = i * 4
aIdx(i, corner) == i * 4 + corner

\* a window of nSamples samples wherever it starts
actualSamplesUnclamped(nSamples, length, startSample) == nSamples

\* const actualSamples = Math.min(nSamples, leftChannel.length - startSample)
actualSamples(nSamples, length, startSample) ==
  Min(nSamples, length - startSample)

\* channel[k] * amplitudeScale; an index outside the array reads undefined
\* and the product is NaN, kept as the quotient 0/0
scaledSample(channel, k, amplitudeScale) ==
  IF k \in DOMAIN channel THEN channel[k] * amplitudeScale ELSE Ratio(0, 0)

\* the indices the loop reads from each channel: sampleIndex and
\* sampleIndex + 1 for every segment
samplesRead(startSample, numSegments) ==
  UNION {{startSample + i, startSample + i + 1} : i \in 0..(numSegments - 1)}

\* createVertexDataFromAudio(leftChannel, rightChannel, startSample, config)
createVertexDataFromAudio(left, right, startSample, config) ==
  LET numSegments == actualSamples(config.nSamples, Length(left), startSample) - 1
      x(k) == IF config.swap THEN scaledSample(right, k, config.amplitudeScale)
              ELSE scaledSample(left, k, config.amplitudeScale)
      y(k) == IF config.swap THEN scaledSample(left, k, config.amplitudeScale)
              ELSE scaledSample(right, k, config.amplitudeScale)
      field(i, f) ==
        LET sampleIndex == startSample + i
            scaledX1 == x(sampleIndex)
            scaledY1 == y(sampleIndex)
            scaledX2 == x(sampleIndex + 1)
            scaledY2 == y(sampleIndex + 1)
        IN CASE f = 0 -> IF config.sweep
                         THEN Ratio(i * config.timeScale, numSegments - 1)
                         ELSE scaledX1
             [] f = 1 -> scaledY1
             [] f = 2 -> IF config.sweep
                         THEN Ratio((i + 1) * config.timeScale, numSegments - 1)
                         ELSE scaledX2
             [] OTHER -> scaledY2
  IN IF numSegments <= 0
     THEN [vertices |-> Zeros(0), indices |-> Zeros(0), numSegments |-> 0]
     ELSE [vertices |->
             [v \in 0..(vertexFloats(numSegments) - 1) |->
                IF v % 5 = 4 THEN aIdx(v \div 20, (v \div 5) % 4)
                ELSE field(v \div 20, v % 5)],
           indices |->
             [j \in 0..(indexCount(numSegments) - 1) |->
                ((j \div 6) * 4 + TriangleCorners[(j % 6) + 1]) % (2 ^ IndexBits)],
           numSegments |-> numSegments]

\* Math.floor(currentTime * sampleRate) for a time in ticks
floorSample(ticks) == (ticks * SampleRate) \div TicksPerSecond

\* the quotient without the clamp
computeUnclampedIntensity(config, drawIndices) ==
  Ratio(Max(1, (config.nSamples - 1) * 6), Max(1, drawIndices))

\* computeNormalizedIntensity(drawIndices), squared: sqrt is increasing, so
\* clamping the root to [0.5, 2] is clamping its square to [1/4, 4].  config
\* is the woscopeConfig the closure reads (an nSamples of 0 is not modelled)
computeNormalizedIntensity(config, drawIndices) ==
  LET expectedIndices == Max(1, (config.nSamples - 1) * 6)
      actual == Max(1, drawIndices)
  IN IF 4 * expectedIndices < actual THEN Ratio(1, 4)
     ELSE IF expectedIndices > 4 * actual THEN Ratio(4, 1)
     ELSE Ratio(expectedIndices, actual)

\* the cells
CellNames == {"dataLeft", "dataRight", "interleaved", "index", "snapVertices",
              "snapIndices", "frameVertices", "frameIndices"}

\* every result of createVertexDataFromAudio in one reused pair of arrays
reusedArrays(owner) ==
  [vertices |-> "frameVertices", indices |-> "frameIndices"]

\* new Float32Array(..) and new Uint16Array(..) in createVertexDataFromAudio:
\* storage of its own for every result; the snapshot keeps its result, a
\* frame drops it when it returns
newArrays(owner) ==
  IF owner = "snapshot"
  THEN [vertices |-> "snapVertices", indices |-> "snapIndices"]
  ELSE [vertices |-> "frameVertices", indices |-> "frameIndices"]

\* pull() of useAudioAnalyser: [cells, left, right]; frame is what the
\* analysers hold, left and right are the arrays returned
pull(cs, analyserL, analyserR, frame, nSamples) ==
  IF ~analyserL /\ ~analyserR
  THEN [cells |-> cs, left |-> cs["dataLeft"], right |-> cs["dataRight"]]
  ELSE LET c1 == IF analyserL
                 THEN [cs EXCEPT !["dataLeft"] = setFrom(@, frame.left, 0)]
                 ELSE cs
           c2 == IF analyserR
                 THEN [c1 EXCEPT !["dataRight"] = setFrom(@, frame.right, 0)]
                 ELSE [c1 EXCEPT !["dataRight"] = setFrom(@, c1["dataLeft"], 0)]
       IN [cells |-> c2,
           left |-> subarray(c2["dataLeft"], 0, nSamples),
           right |-> subarray(c2["dataRight"], 0, nSamples)]

\* setSnapshot(null)
NoSnapshot == <<>>

NoStep == [kind |-> "none", source |-> "none", captured |-> FALSE,
           threw |-> FALSE]

\* the nSamples handed to useAudioAnalyser
tapSamples(loaded) ==
  IF loaded THEN Min(NSamples, Length(leftChannel)) ELSE DefaultTapSamples

\* const fft = Math.max(2048, nSamples * 2), the 2048 scaled
fftSize(nSamples) == Max(NSamples, nSamples * 2)

\* the position read from the currentTime state of the render that made the
\* listener
captureTimeStale(elementTime, stateTime) == stateTime

\* the position a capture starts from: audio.currentTime, read from the
\* element when the listener runs
captureTime(elementTime, stateTime) == elementTime

\* a capture that knows the decoded track only
captureSnapshotDecodedOnly(cs, loaded, analyserL, analyserR, frame, ticks) ==
  LET ref == newArrays("snapshot")
      snap == createVertexDataFromAudio(leftChannel, rightChannel,
                                        floorSample(ticks), woscopeConfig)
  IN IF ~loaded THEN [cells |-> cs, snapshot |-> NoSnapshot]
     ELSE [cells |-> [cs EXCEPT ![ref.vertices] = snap.vertices,
                                ![ref.indices] = snap.indices],
           snapshot |-> <<[vertices |-> ref.vertices, indices |-> ref.indices,
                           numSegments |-> snap.numSegments]>>]

\* a capture that takes the tap whenever the tap has an analyser
captureSnapshotTapFirst(cs, loaded, analyserL, analyserR, frame, ticks) ==
  LET ref == newArrays("snapshot")
      tap == pull(cs, analyserL, analyserR, frame, tapSamples(loaded))
      leftCopy == [i \in DOMAIN tap.left |-> tap.left[i]]
      rightCopy == [i \in DOMAIN tap.right |-> tap.right[i]]
      decoded == loaded /\ ~analyserL
      snap == IF decoded
              THEN createVertexDataFromAudio(leftChannel, rightChannel,
                                             floorSample(ticks), woscopeConfig)
              ELSE createVertexDataFromAudio(leftCopy, rightCopy, 0,
                                             woscopeConfig)
      base == IF decoded THEN cs ELSE tap.cells
  IN [cells |-> [base EXCEPT ![ref.vertices] = snap.vertices,
                             ![ref.indices] = snap.indices],
      snapshot |-> <<[vertices |-> ref.vertices, indices |-> ref.indices,
                      numSegments |-> snap.numSegments]>>]

\* captureSnapshot(): [cells, snapshot]
captureSnapshot(cs, loaded, analyserL, analyserR, frame, ticks) ==
  LET ref == newArrays("snapshot")
      tap == pull(cs, analyserL, analyserR, frame, tapSamples(loaded))
      \* new Float32Array(left), new Float32Array(right)
      leftCopy == [i \in DOMAIN tap.left |-> tap.left[i]]
      rightCopy == [i \in DOMAIN tap.right |-> tap.right[i]]
      snap == IF loaded
              THEN createVertexDataFromAudio(leftChannel, rightChannel,
                                             floorSample(ticks), woscopeConfig)
              ELSE createVertexDataFromAudio(leftCopy, rightCopy, 0,
                                             woscopeConfig)
      base == IF loaded THEN cs ELSE tap.cells
  IN [cells |-> [base EXCEPT ![ref.vertices] = snap.vertices,
                             ![ref.indices] = snap.indices],
      snapshot |-> <<[vertices |-> ref.vertices, indices |-> ref.indices,
                      numSegments |-> snap.numSegments]>>]

\* the media element changes state: playback progress, pause(), play(),
\* seeking
MediaElement(paused, ticks) ==
  /\ audio' = [paused |-> paused, currentTime |-> ticks]
  /\ audio' # audio
  /\ lastStep' = [NoStep EXCEPT !.kind = "element"]
  /\ UNCHANGED <<audioData, analyserPull, analyserLeft, analyserRight,
                 woscopeIsPlaying, currentTime, snapshot, cells, hasAttributes,
                 drawRange, uIntensity, rendererConfig, gen, workletVars, sabVars>>

\* useAudioBuffer delivers the decoded track; Woscope renders again, the
\* effect of useAudioAnalyser runs for the new nSamples and WoscopeRenderer
\* is mounted.  mode tells what the effect could set up; tap tells whether
\* the renderer is given analyserPull (Woscope gives it)
AudioLoaded(mode, tap) ==
  LET fft == fftSize(tapSamples(TRUE))
  IN /\ ~audioData
     /\ audioData' = TRUE
     /\ analyserPull' = tap
     /\ analyserLeft' = (mode # "none")
     /\ analyserRight' = (mode = "stereo")
     /\ cells' = IF mode = "none" THEN cells
                 ELSE [cells EXCEPT !["dataLeft"] = Zeros(fft),
                                    !["dataRight"] = Zeros(fft)]
     /\ lastStep' = [NoStep EXCEPT !.kind = "loaded"]
     /\ UNCHANGED <<audio, woscopeIsPlaying, currentTime, snapshot,
                    hasAttributes, drawRange, uIntensity, rendererConfig, gen, workletVars, sabVars>>

handlePlay ==
  /\ woscopeIsPlaying' = TRUE
  /\ snapshot' = NoSnapshot
  /\ lastStep' = [NoStep EXCEPT !.kind = "play"]
  /\ UNCHANGED <<audioData, analyserPull, analyserLeft, analyserRight, audio,
                 currentTime, cells, hasAttributes, drawRange, uIntensity,
                 rendererConfig, gen, workletVars, sabVars>>

handlePause(frame) ==
  LET done == captureSnapshot(cells, audioData, analyserLeft, analyserRight,
                              frame,
                              captureTime(audio.currentTime, currentTime))
  IN /\ woscopeIsPlaying' = FALSE
     /\ cells' = done.cells
     /\ snapshot' = done.snapshot
     /\ lastStep' = [NoStep EXCEPT !.kind = "pause", !.captured = TRUE]
     /\ UNCHANGED <<audioData, analyserPull, analyserLeft, analyserRight, audio,
                    currentTime, hasAttributes, drawRange, uIntensity,
                    rendererConfig, gen, workletVars, sabVars>>

\* handleTimeUpdate and handleSeeked have one body
handleTimeOrSeek(kind, frame) ==
  LET done == captureSnapshot(cells, audioData, analyserLeft, analyserRight,
                              frame,
                              captureTime(audio.currentTime, currentTime))
  IN /\ currentTime' = audio.currentTime
     /\ cells' = IF audio.paused THEN done.cells ELSE cells
     /\ snapshot' = IF audio.paused THEN done.snapshot ELSE snapshot
     /\ lastStep' = [NoStep EXCEPT !.kind = kind, !.captured = audio.paused]
     /\ UNCHANGED <<audioData, analyserPull, analyserLeft, analyserRight, audio,
                    woscopeIsPlaying, hasAttributes, drawRange, uIntensity,
                    rendererConfig, gen, workletVars, sabVars>>

handleTimeUpdate(frame) == handleTimeOrSeek("timeupdate", frame)

handleSeeked(frame) == handleTimeOrSeek("seeked", frame)

handleEnded ==
  /\ woscopeIsPlaying' = FALSE
  /\ lastStep' = [NoStep EXCEPT !.kind = "ended"]
  /\ UNCHANGED <<audioData, analyserPull, analyserLeft, analyserRight, audio,
                 currentTime, snapshot, cells, hasAttributes, drawRange,
                 uIntensity, rendererConfig, gen, workletVars, sabVars>>

\* the frame callback with the live branch tried before the snapshot
frameSourceLiveFirst(playing, snap, tap, liveLength) ==
  IF tap /\ liveLength > 0 THEN "live"
  ELSE IF ~playing /\ snap # NoSnapshot THEN "snapshot"
  ELSE "buffered"

\* the branch of the frame callback that supplies the frame's samples: the
\* tests of lines 110, 156 and 158, in the order the code makes them
frameSource(playing, snap, tap, liveLength) ==
  IF ~playing /\ snap # NoSnapshot THEN "snapshot"
  ELSE IF tap /\ liveLength > 0 THEN "live"
  ELSE "buffered"

\* the end of the three branches with the draw range set to the whole of the
\* allocated index storage instead of the frame's index count
drawGeometryWholeRange(cs, vertices, indices, config, range, intensity) ==
  LET vertexStride == 5
      actualVertices == Length(vertices) \div vertexStride
      verticesFit == actualVertices * vertexStride <= Length(cs["interleaved"])
      indicesFit == Length(indices) <= Length(cs["index"])
      c1 == [cs EXCEPT !["interleaved"] =
                         setFrom(@, subarray(vertices, 0,
                                             actualVertices * vertexStride), 0)]
      c2 == [c1 EXCEPT !["index"] =
                         setFrom(@, subarray(indices, 0, Length(indices)), 0)]
  IN IF ~verticesFit
     THEN [cells |-> cs, drawRange |-> range, uIntensity |-> intensity,
           threw |-> TRUE]
     ELSE IF ~indicesFit
     THEN [cells |-> c1, drawRange |-> range, uIntensity |-> intensity,
           threw |-> TRUE]
     ELSE [cells |-> c2, drawRange |-> Length(c2["index"]),
           uIntensity |-> computeNormalizedIntensity(config, Length(indices)),
           threw |-> FALSE]

\* the end of the three branches: the geometry is copied into the backing
\* arrays, the draw range and the intensity are set
drawGeometry(cs, vertices, indices, config, range, intensity) ==
  LET vertexStride == 5
      actualVertices == Length(vertices) \div vertexStride
      \* TypedArray.prototype.set throws a RangeError, before it writes, when
      \* the source does not fit
      verticesFit == actualVertices * vertexStride <= Length(cs["interleaved"])
      indicesFit == Length(indices) <= Length(cs["index"])
      c1 == [cs EXCEPT !["interleaved"] =
                         setFrom(@, subarray(vertices, 0,
                                             actualVertices * vertexStride), 0)]
      c2 == [c1 EXCEPT !["index"] =
                         setFrom(@, subarray(indices, 0, Length(indices)), 0)]
  IN IF ~verticesFit
     THEN [cells |-> cs, drawRange |-> range, uIntensity |-> intensity,
           threw |-> TRUE]
     ELSE IF ~indicesFit
     THEN [cells |-> c1, drawRange |-> range, uIntensity |-> intensity,
           threw |-> TRUE]
     ELSE [cells |-> c2, drawRange |-> Length(indices),
           uIntensity |-> computeNormalizedIntensity(config, Length(indices)),
           threw |-> FALSE]

\* the callback of useFrame, from the allocation of the backing arrays on:
\* [cells, drawRange, uIntensity, source, threw]; config is the woscopeConfig
\* of the render (the config prop over the defaults)
renderFrame(cs, allocated, playing, snap, tap, analyserL, analyserR, frame, element, range, intensity, config) ==
  LET maxSegments == Max(1, config.nSamples - 1)
      maxVertices == maxSegments * 4
      c0 == IF allocated THEN cs
            ELSE [cs EXCEPT !["interleaved"] = Zeros(maxVertices * 5),
                            !["index"] = Zeros(maxSegments * 6)]
      \* analyserPull() is called only past the snapshot test
      live == pull(c0, analyserL, analyserR, frame, tapSamples(TRUE))
      liveLength == IF tap THEN Length(live.left) ELSE 0
      source == frameSource(playing, snap, tap, liveLength)
      c1 == IF tap /\ source # "snapshot" THEN live.cells ELSE c0
      ref == newArrays("frame")
      playTime == element.currentTime
      clampedPlayTime == Min(playTime, duration)
      vertexData ==
        IF source = "live"
        THEN createVertexDataFromAudio(live.left, live.right, 0, config)
        ELSE createVertexDataFromAudio(leftChannel, rightChannel,
                                       floorSample(clampedPlayTime), config)
      c2 == [c1 EXCEPT ![ref.vertices] = vertexData.vertices,
                       ![ref.indices] = vertexData.indices]
      \* if (... numSegments === 0) return
      keep(c) == [cells |-> c, drawRange |-> range, uIntensity |-> intensity,
                  threw |-> FALSE]
      done ==
        IF source = "snapshot"
        THEN IF snap[1].numSegments = 0 THEN keep(c0)
             ELSE drawGeometry(c0, c0[snap[1].vertices], c0[snap[1].indices],
                               config, range, intensity)
        ELSE IF vertexData.numSegments = 0 THEN keep(c2)
             ELSE drawGeometry(c2, c2[ref.vertices], c2[ref.indices],
                               config, range, intensity)
  IN [cells |-> done.cells, drawRange |-> done.drawRange,
      uIntensity |-> done.uIntensity, source |-> source,
      threw |-> done.threw]

\* one frame of the mounted WoscopeRenderer (its refs are set once it is
\* mounted)
Frame(frame) ==
  LET done == renderFrame(cells, hasAttributes, woscopeIsPlaying, snapshot,
                          analyserPull, analyserLeft, analyserRight, frame,
                          audio, drawRange, uIntensity, rendererConfig)
      empty == Length(leftChannel) = 0 \/ Length(rightChannel) = 0
  IN /\ audioData
     /\ hasAttributes' = (hasAttributes \/ ~empty)
     /\ cells' = IF empty THEN cells ELSE done.cells
     /\ drawRange' = IF empty THEN drawRange ELSE done.drawRange
     /\ uIntensity' = IF empty THEN uIntensity ELSE done.uIntensity
     /\ lastStep' = [NoStep EXCEPT !.kind = "frame",
                                   !.source = IF empty THEN "none"
                                              ELSE done.source,
                                   !.threw = ~empty /\ done.threw]
     /\ UNCHANGED <<audioData, analyserPull, analyserLeft, analyserRight, audio,
                    woscopeIsPlaying, currentTime, snapshot, rendererConfig, gen, workletVars,
                    sabVars>>

\* the nSamples a parent may pass in the config prop: one sample, Woscope's
\* window and a longer one
ResizeSamples == {1, NSamples, 2 * NSamples}

\* the parent renders WoscopeRenderer with another config prop; useMemo
\* merges it over the defaults again
SetConfig(nSamples) ==
  /\ nSamples # rendererConfig.nSamples
  /\ rendererConfig' = [rendererConfig EXCEPT !.nSamples = nSamples]
  /\ lastStep' = [NoStep EXCEPT !.kind = "config"]
  /\ UNCHANGED <<audioData, analyserPull, analyserLeft, analyserRight, audio,
                 woscopeIsPlaying, currentTime, snapshot, cells, hasAttributes,
                 drawRange, uIntensity, gen, workletVars, sabVars>>

ScopeIdle ==
  /\ audioData = FALSE
  /\ analyserPull = TRUE
  /\ analyserLeft = FALSE
  /\ analyserRight = FALSE
  /\ audio = [paused |-> TRUE, currentTime |-> 0]
  /\ woscopeIsPlaying = FALSE
  /\ currentTime = 0
  /\ snapshot = NoSnapshot
  /\ cells = [c \in CellNames |->
                IF c \in {"dataLeft", "dataRight"}
                THEN Zeros(DefaultTapSamples) ELSE Zeros(0)]
  /\ hasAttributes = FALSE
  /\ drawRange = 0
  /\ uIntensity = Ratio(1, 1)
  /\ lastStep = NoStep
  /\ rendererConfig = woscopeConfig

(***************************************************************************)
(* Part IV: the geometry generator on its own, and the media element's     *)
(* events in the order the element fires them                              *)
(***************************************************************************)
\* the longest window of the generator's calls
MaxWindow == 4

\* the shortest window with a segment whose vertex numbers pass the index
\* width
LongWindow == (2 ^ IndexBits) \div 4 + 2

\* the channels handed to the generator: a length and whether every sample
\* has one value
ShortTracks == [length : 0..(MaxWindow + 1), flat : BOOLEAN]

LongTrack == [length |-> LongWindow, flat |-> TRUE]

\* sample i of the left and of the right channel of a track
leftSample(t, i) == IF t.flat THEN 5 ELSE i + 1

rightSample(t, i) == IF t.flat THEN 7 ELSE 2 * i + 11

TrackLeft(t) == [i \in 0..(t.length - 1) |-> leftSample(t, i)]

TrackRight(t) == [i \in 0..(t.length - 1) |-> rightSample(t, i)]

\* start indices: inside the track, at its end and past it
Starts == 0..(MaxWindow + 2)

\* configurations: createXYConfig and createSweepConfig with overrides
GeneratorConfigs ==
  [nSamples : 0..(MaxWindow + 1), timeScale : {2}, amplitudeScale : {1, 2},
   sweep : BOOLEAN, swap : BOOLEAN]

LongConfig == [nSamples |-> LongWindow, timeScale |-> 2, amplitudeScale |-> 1,
               sweep |-> FALSE, swap |-> FALSE]

\* aEnd - aStart of segment i as the vertex shader computes it from the
\* interleaved floats: whether it is a finite vector and whether it is zero
\* (a sweep coordinate is a quotient, not a number when its divisor is 0)
segmentDir(vertices, i, sweep) ==
  LET f(k) == vertices[20 * i + k]
      finite == sweep => (f(0)[2] # 0 /\ f(2)[2] # 0)
  IN [finite |-> finite,
      zero |-> /\ finite
               /\ f(1) = f(3)
               /\ IF sweep THEN f(0)[1] = f(2)[1] ELSE f(0) = f(2)]

\* woscopeVertexShader: if (uvl.z > EPS) dir = dir / uvl.z; else dir =
\* vec2(1.0, 0.0). The coordinates lie on a grid far coarser than EPS, so a
\* length exceeds EPS exactly when it is a non-zero number.
woscopeVertexShader(dir) ==
  IF dir.finite /\ ~dir.zero THEN "divide" ELSE "fallback"

\* woscopeFragmentShader: if (len < EPS) fallback; else ... / len * uSize
woscopeFragmentShader(dir) ==
  IF dir.finite /\ dir.zero THEN "fallback" ELSE "divide"

\* woscopeVertexShader: uvl.w = floor(aIdx / 4.0 + 0.5), the segment age the
\* vertex stage hands to the fragment stage; aIdx is a whole number, so the
\* floor of aIdx/4 + 1/2 is the whole quotient of aIdx + 2 by 4
uvlW(vertexIdx) == (vertexIdx + 2) \div 4

\* woscopeShaderUniforms: the shader's default for uN is 2048, the nSamples
\* of the config Woscope passes to the renderer
woscopeShaderUniforms == [uN |-> woscopeConfig.nSamples]

\* the uniforms of the material WoscopeRenderer creates: the memo has no
\* dependencies, so the material is made once, whatever the config prop is,
\* and the frame callback assigns uIntensity only
shaderMaterial(config) == [uN |-> woscopeShaderUniforms.uN]

\* no call of createVertexDataFromAudio yet
NoCall == [called |-> FALSE]

\* one call of createVertexDataFromAudio, on arguments of the caller's
\* choice; of the returned arrays the caller keeps the lengths and the
\* floats and index entries of segment i
Generate(track, startSample, config, i) ==
  LET out == createVertexDataFromAudio(TrackLeft(track), TrackRight(track),
                                       startSample, config)
  IN /\ gen = NoCall
     /\ i = 0 \/ i < out.numSegments
     /\ gen' = [called |-> TRUE, track |-> track,
                startSample |-> startSample, config |-> config,
                numSegments |-> out.numSegments,
                vertexLength |-> Length(out.vertices),
                indexLength |-> Length(out.indices),
                segment |-> i,
                quad |-> subarray(out.vertices, 20 * i, 20 * i + 20),
                triangles |-> subarray(out.indices, 6 * i, 6 * i + 6)]
     /\ UNCHANGED <<workletVars, sabVars, scopeVars, transport>>

\* no event waits for Woscope's listeners, and the element has not played
NoTransport == [pending |-> <<>>, played |-> FALSE]

\* events that may wait for the listeners at one time
MaxPending == 3

\* the element queues events for the listeners
Queue(events) ==
  /\ Len(transport.pending) + Len(events) <= MaxPending
  /\ transport' = [transport EXCEPT !.pending = @ \o events]

\* an element that fires ended without pausing itself
endOfPlaybackWithoutPause == <<"timeupdate", "ended">>

\* what the element fires when playback reaches the end of the track: the
\* time update, then (the element was not paused) it pauses itself and fires
\* pause, then ended
endOfPlayback == <<"timeupdate", "endpause", "ended">>

\* audio.play(): the element leaves the paused state, from the start of the
\* track when it had ended, and fires play
ElementPlay ==
  /\ audio.paused
  /\ MediaElement(FALSE, IF audio.currentTime >= duration THEN 0
                         ELSE audio.currentTime)
  /\ Len(transport.pending) < MaxPending
  /\ transport' = [pending |-> Append(transport.pending, "play"),
                   played |-> TRUE]

\* audio.pause(): the element enters the paused state and fires timeupdate
\* and pause
ElementPause ==
  /\ ~audio.paused
  /\ audio.currentTime < duration
  /\ MediaElement(TRUE, audio.currentTime)
  /\ Queue(<<"timeupdate", "pause">>)

\* playback moves on inside the track; the element fires timeupdate
ElementAdvance(ticks) ==
  /\ ~audio.paused
  /\ audio.currentTime < ticks /\ ticks < duration
  /\ MediaElement(FALSE, ticks)
  /\ Queue(<<"timeupdate">>)

\* playback reaches the end of the track
ElementReachEnd ==
  /\ ~audio.paused
  /\ audio.currentTime < duration
  /\ MediaElement(FALSE, duration)
  /\ Queue(endOfPlayback)

\* between the time update and the pause event of the end of playback the
\* element sets its paused attribute
ElementEndPause ==
  /\ transport.pending # <<>>
  /\ Head(transport.pending) = "endpause"
  /\ MediaElement(TRUE, audio.currentTime)
  /\ transport' = [transport EXCEPT !.pending = <<"pause">> \o Tail(@)]

\* the user moves the scrubber of the paused element; the element fires
\* timeupdate and seeked
ElementSeek(ticks) ==
  /\ audio.paused
  /\ MediaElement(TRUE, ticks)
  /\ Queue(<<"timeupdate", "seeked">>)

\* the oldest waiting event reaches its listener
Delivered(event) ==
  /\ transport.pending # <<>>
  /\ Head(transport.pending) = event
  /\ transport' = [transport EXCEPT !.pending = Tail(@)]

LaterIdle ==
  /\ gen = NoCall
  /\ transport = NoTransport

(***************************************************************************)
(* Specifications                                                          *)
(***************************************************************************)
Init == WorkletInit /\ SabIdle /\ ScopeIdle /\ LaterIdle

Next ==
  \/ \E capacity \in CapacityRequests : InitRingBuffers(capacity)
  \/ \E len \in ActiveLengths : AppendVertexData(len)
  \/ \E len \in ActiveLengths : UpdateVertexData(len)
  \/ \E playing \in BOOLEAN : SetPlaying(playing)
  \/ \E nOut \in OutputCounts : Process(nOut)

Spec == Init /\ [][Next]_vars

\* the messages that size and fill the ring buffers
NextCapacity ==
  \/ \E capacity \in WideRequests : InitRingBuffers(capacity)
  \/ \E len \in ActiveLengths : AppendVertexData(len)
  \/ \E len \in ActiveLengths : UpdateVertexData(len)

SpecCapacity == Init /\ [][NextCapacity]_vars

\* the shared ring buffer with every reader call taken as one step
NextSab ==
  \/ Initialize(AnalyserCount)
  \/ \E q \in Quanta : ProducerWrite(q)
  \/ \E k \in Consumers, windowSize \in WindowSizes : Mount(k, windowSize)
  \/ GetWriteIndex
  \/ \E channelIndex \in ChannelIndexes, endSample \in EndSamples :
       GetSamplesForChannel("DebugWaveformView", channelIndex, endSample)
  \/ \E channelIndex \in ChannelIndexes :
       GetLatestSamples("WaveformQuad", channelIndex)
  \/ \E channelIndex \in ChannelIndexes \cup {AnalyserCount},
        byteData \in ByteFrames :
       GetChannelWaveform(channelIndex, byteData)

SpecSab == Init /\ [][NextSab]_vars

\* the views' frames interleaved with the producer
NextSabRace ==
  \/ Initialize(AnalyserCount)
  \/ \E q \in Quanta : ProducerWrite(q)
  \/ \E k \in Consumers, windowSize \in FrameWindowSizes :
       Length(sampleBuf[k]) = 0 /\ Mount(k, windowSize)
  \/ \E k \in Consumers : FrameGetWriteIndex(k, viewChannel[k])
  \/ \E k \in Consumers : FrameLoadWrite(k)
  \/ \E k \in Consumers : FrameCopy(k)
  \/ \E k \in Consumers : FrameReturn(k)
  \/ \E k \in Consumers : FrameEnd(k)

SpecSabRace == Init /\ [][NextSabRace]_vars

\* what the analysers can hold when they are asked: nothing is read from
\* them while there is none
TapFrames ==
  LET frames == SignalFrames(fftSize(tapSamples(audioData)))
  IN IF analyserLeft THEN frames ELSE {CHOOSE frame \in frames : TRUE}

\* Woscope with its media element, its analyser tap and its renderer
NextScope ==
  \/ \E paused \in BOOLEAN, ticks \in Times :
       MediaElement(paused, ticks) /\ UNCHANGED transport
  \/ \E mode \in {"stereo", "mono", "none"} :
       AudioLoaded(mode, TRUE) /\ UNCHANGED transport
  \/ AudioLoaded("none", FALSE) /\ UNCHANGED transport
  \/ handlePlay /\ UNCHANGED transport
  \/ \E frame \in TapFrames : handlePause(frame) /\ UNCHANGED transport
  \/ \E frame \in TapFrames : handleTimeUpdate(frame) /\ UNCHANGED transport
  \/ \E frame \in TapFrames : handleSeeked(frame) /\ UNCHANGED transport
  \/ handleEnded /\ UNCHANGED transport
  \/ \E frame \in TapFrames : Frame(frame) /\ UNCHANGED transport

SpecScope == Init /\ [][NextScope]_vars

\* the analyser delivers one signal
ResizeFrames == {CHOOSE frame \in TapFrames : TRUE}

\* WoscopeRenderer under a parent that changes its config prop
NextResize ==
  \/ \E ticks \in Times :
       MediaElement(audio.paused, ticks) /\ UNCHANGED transport
  \/ AudioLoaded("stereo", TRUE) /\ UNCHANGED transport
  \/ AudioLoaded("none", FALSE) /\ UNCHANGED transport
  \/ handlePlay /\ UNCHANGED transport
  \/ \E frame \in ResizeFrames : handlePause(frame) /\ UNCHANGED transport
  \/ \E frame \in ResizeFrames : Frame(frame) /\ UNCHANGED transport
  \/ \E nSamples \in ResizeSamples : SetConfig(nSamples) /\ UNCHANGED transport

SpecResize == Init /\ [][NextResize]_vars

\* Woscope behind a media element that fires its events in the order of the
\* HTML standard; a frame may run between any two events
NextTransport ==
  \/ AudioLoaded("stereo", TRUE) /\ UNCHANGED transport
  \/ AudioLoaded("none", FALSE) /\ UNCHANGED transport
  \/ ElementPlay
  \/ ElementPause
  \/ \E ticks \in Times : ElementAdvance(ticks)
  \/ ElementReachEnd
  \/ ElementEndPause
  \/ \E ticks \in Times : ElementSeek(ticks)
  \/ handlePlay /\ Delivered("play")
  \/ \E frame \in ResizeFrames : handlePause(frame) /\ Delivered("pause")
  \/ \E frame \in ResizeFrames :
       handleTimeUpdate(frame) /\ Delivered("timeupdate")
  \/ \E frame \in ResizeFrames : handleSeeked(frame) /\ Delivered("seeked")
  \/ handleEnded /\ Delivered("ended")
  \/ \E frame \in ResizeFrames : Frame(frame) /\ UNCHANGED transport

SpecTransport == Init /\ [][NextTransport]_vars

\* the geometry generator called on windows of every shape
NextGeometry ==
  \/ \E track \in ShortTracks, startSample \in Starts,
        config \in GeneratorConfigs, i \in 0..MaxWindow :
       Generate(track, startSample, config, i)
  \/ Generate(LongTrack, 0, LongConfig, LongWindow - 2)

SpecGeometry == Init /\ [][NextGeometry]_vars

(***************************************************************************)
(* Claims about the worklet ring buffers                                   *)
(***************************************************************************)
\* the unread samples of a channel, oldest first
Unread(ch) ==
  [i \in 1..(ch.writeIndex - ch.readIndex) |->
     ReadSlot(ch.buffer, BitAnd(ch.readIndex + i - 1, ch.capacity - 1))]

\* the last k elements of a sequence
LastOf(seq, k) == [i \in 1..k |-> seq[Len(seq) - k + i]]

\* the channels an accepted appendVertexData message writes to
Carried(len) ==
  IF batchLength(Payload(len, serial), 1, 0) <= 0 THEN {}
  ELSE {n \in Names : len[n] # 0}

\* the array lengths of the message a step delivered, read off the sample count
StepLengths == [n \in Names |-> serial'[n] - serial[n]]

\* the step is the delivery of an appendVertexData message that carries samples
AppendStep == serial' # serial /\ AppendVertexData(StepLengths)

RECURSIVE SumOver(_, _)
SumOver(f, i) == IF i = 0 THEN 0 ELSE SumOver(f, i - 1) + f[channelNames[i]]

\* C1: once a channel buffer is allocated, 0 <= writeIndex - readIndex <= capacity
\* holds whatever messages and process() calls came before
C1_IndexWindow ==
  \A n \in Names :
    channels[n].allocated =>
      /\ 0 <= channels[n].writeIndex - channels[n].readIndex
      /\ channels[n].writeIndex - channels[n].readIndex <= channels[n].capacity

\* an append overflowed a channel, which now holds exactly capacity unread samples
C1_Witness ==
  /\ droppedSamples > 0
  /\ \E n \in Names :
       /\ channels[n].allocated
       /\ channels[n].readIndex > 0
       /\ channels[n].writeIndex - channels[n].readIndex = channels[n].capacity

\* C2 as stated: a write of written > capacity samples (to a ring buffer with
\* nothing unread) adds exactly written - capacity to droppedSamples
C2_Original ==
  [][AppendStep =>
       \A n \in Carried(StepLengths) :
         (/\ channels[n].allocated
          /\ getAvailable(channels[n]) = 0
          /\ StepLengths[n] > channels[n].capacity) =>
           droppedSamples' = droppedSamples
                               + (StepLengths[n] - channels[n].capacity)]_vars

\* C2 amended: an appendVertexData message adds to droppedSamples, for every
\* channel it writes to, max(0, unread + written - capacity), the capacity being
\* the one the channel has after the call
C2_DroppedPerChannel ==
  [][AppendStep =>
       droppedSamples' = droppedSamples +
         SumOver([n \in Names |->
                    IF n \in Carried(StepLengths)
                    THEN Max(0, getAvailable(channels[n]) + StepLengths[n]
                                - channels'[n].capacity)
                    ELSE 0],
                 Len(channelNames))]_vars

\* two allocated channels each took more samples than their capacity in one message
C2_Witness ==
  /\ droppedSamples >= 2
  /\ \A n \in ActiveNames :
       /\ channels[n].allocated
       /\ channels[n].capacity = 2
       /\ channels[n].writeIndex = serial[n]
       /\ channels[n].writeIndex >= 4
       /\ channels[n].lastSample = serial[n]

\* C3: an append never blocks, and afterwards the unread samples of every channel
\* it wrote to are the last min(capacity, |U| + |S|) elements of U followed by S
C3_DropsOldest ==
  [][AppendStep =>
       \A n \in Carried(StepLengths) :
         LET U == Unread(channels[n])
             S == Payload(StepLengths, serial)[n]
         IN Unread(channels'[n]) =
              LastOf(U \o S, Min(channels'[n].capacity, Len(U) + Len(S)))]_vars

\* an overflowing append happened: a full channel whose oldest samples are gone
C3_Witness ==
  /\ droppedSamples > 0
  /\ underruns = 0
  /\ \E n \in Names :
       /\ channels[n].allocated
       /\ channels[n].writeIndex - channels[n].readIndex = channels[n].capacity
       /\ channels[n].readIndex > 0
       /\ Unread(channels[n]) =
            [i \in 1..channels[n].capacity |-> serial[n] - channels[n].capacity + i]

(***************************************************************************)
(* Claims about the shared ring buffer's readers                           *)
(***************************************************************************)
\* a step that is one call of a reader
PeekStep == reads' = reads + 1

\* samples written to every channel so far
Written == IF sabReady THEN ctrl[WRITE_IDX] ELSE 0

InRange(channelIndex) == channelIndex >= 0 /\ channelIndex < sabChannels

\* C4: after W <= capacity samples have been written to a channel, a peek
\* that ends at the latest written sample, into a buffer of length n <= W,
\* returns n and leaves in the buffer the last n written samples in the
\* order they were written
C4_LatestWindow ==
  [][(/\ PeekStep
      /\ \/ lastPeek'.op = "getLatestSamples"
         \/ /\ lastPeek'.op = "getSamplesForChannel"
            /\ lastPeek'.endSample = Written - 1
      /\ InRange(lastPeek'.channelIndex)
      /\ Written <= sabCapacity
      /\ Length(sampleBuf[lastPeek'.consumer]) >= 1
      /\ Length(sampleBuf[lastPeek'.consumer]) <= Written)
     => LET k == lastPeek'.consumer
            n == Length(sampleBuf[k])
        IN /\ lastPeek'.ret = n
           /\ \A j \in 0..(n - 1) :
                sampleBuf'[k][j]
                  = WrittenSample(lastPeek'.channelIndex, Written - n + j)]_vars

C4_Witness ==
  /\ sabReady
  /\ lastPeek.op = "getLatestSamples"
  /\ lastPeek.channelIndex = 1
  /\ ctrl[WRITE_IDX] = sabCapacity
  /\ lastPeek.ret = sabCapacity - 1
  /\ sampleBuf["WaveformQuad"][0] = WrittenSample(1, 1)

\* C5: getSamplesForChannel clamps endSample to e = min(endSample,
\* writeIndex - 1), returns n = min(out.length, e + 1) and copies to
\* out[0..n) the samples of absolute indices e - n + 1 .. e as the producer
\* wrote them; it returns 0 and copies nothing when nothing has been
\* written, when endSample is negative or when the channel is out of range
C5_PeekWindow ==
  [][(PeekStep /\ lastPeek'.op = "getSamplesForChannel")
     => LET k == lastPeek'.consumer
            c == lastPeek'.channelIndex
            e == Min(lastPeek'.endSample, Written - 1)
            n == Min(Length(sampleBuf[k]), e + 1)
        IN IF Written = 0 \/ lastPeek'.endSample < 0 \/ ~InRange(c)
           THEN lastPeek'.ret = 0 /\ sampleBuf' = sampleBuf
           ELSE /\ lastPeek'.ret = n
                /\ \A j \in 0..(n - 1) :
                     sampleBuf'[k][j] = WrittenSample(c, e - n + 1 + j)]_vars

\* C7: no reader call changes the control words (read index, write index)
\* or the sample store
C7_ReadersOnlyRead ==
  [][PeekStep => ctrl' = ctrl /\ sabSamples' = sabSamples]_vars

C7_Witness ==
  /\ sabReady
  /\ lastPeek.op = "getChannelWaveform"
  /\ Len(lastPeek.waveform) = 1
  /\ ctrl[WRITE_IDX] - ctrl[READ_IDX] = sabCapacity
  /\ ctrl[READ_IDX] > 0

\* C6: with the views' frames and the producer interleaved in every way, a
\* peek that has returned left in its buffer exactly what the sample store
\* held, at the slots of its window, when the peek loaded the write index
C6_PeekSnapshot ==
  \A k \in Consumers :
    reader[k].pc = "returned" =>
      \A j \in 0..(reader[k].ret - 1) : sampleBuf[k][j] = reader[k].expected[j]

(***************************************************************************)
(* Claims about Woscope and its renderer                                   *)
(***************************************************************************)
\* the first n elements of an array
Prefix(a, n) == [i \in 0..(n - 1) |-> a[i]]

\* the geometry of the decoded track's window at a time
BufferedGeometry(ticks) ==
  createVertexDataFromAudio(leftChannel, rightChannel,
                            floorSample(Min(ticks, duration)), rendererConfig)

\* the geometry of what the tap's buffers hold
LiveGeometry(cs) ==
  createVertexDataFromAudio(subarray(cs["dataLeft"], 0, tapSamples(audioData)),
                            subarray(cs["dataRight"], 0, tapSamples(audioData)),
                            0, rendererConfig)

\* the backing arrays hold a geometry and the draw range covers it
Draws(cs, range, geometry) ==
  /\ range = Length(geometry.indices)
  /\ Prefix(cs["interleaved"], Length(geometry.vertices)) = geometry.vertices
  /\ Prefix(cs["index"], Length(geometry.indices)) = geometry.indices

\* C8: every frame takes its samples from exactly one source: the frozen
\* snapshot when playback is not playing and a snapshot exists; otherwise the
\* live tap when one is provided and returns samples; otherwise the window of
\* the decoded track.  What the frame draws is that source's geometry
C8_SourcePriority ==
  [][lastStep'.kind = "frame"
     => LET tapReturns == analyserPull /\ tapSamples(audioData) > 0
            expected == IF ~woscopeIsPlaying /\ snapshot # NoSnapshot
                        THEN "snapshot"
                        ELSE IF tapReturns THEN "live" ELSE "buffered"
            geometry ==
              CASE expected = "snapshot" ->
                     [vertices |-> cells[snapshot[1].vertices],
                      indices |-> cells[snapshot[1].indices],
                      numSegments |-> snapshot[1].numSegments]
                [] expected = "live" -> LiveGeometry(cells')
                [] OTHER -> BufferedGeometry(audio.currentTime)
        IN /\ lastStep'.source = expected
           /\ geometry.numSegments > 0 => Draws(cells', drawRange', geometry)
           /\ expected # "live" =>
                /\ cells'["dataLeft"] = cells["dataLeft"]
                /\ cells'["dataRight"] = cells["dataRight"]]_vars

C8_Witness ==
  /\ lastStep.kind = "frame"
  /\ lastStep.source = "snapshot"
  /\ analyserPull
  /\ analyserLeft
  /\ drawRange = 6 * (NSamples - 1)

\* C9: every play event discards the snapshot; every pause event, and every
\* time-update or seeked event that finds the element paused, creates one,
\* from the decoded track when there is one and else from the tap
C9_SnapshotLifecycle ==
  [][/\ lastStep'.kind = "play" => snapshot' = NoSnapshot
     /\ (\/ lastStep'.kind = "pause"
         \/ lastStep'.kind \in {"timeupdate", "seeked"} /\ audio.paused)
        => /\ snapshot' # NoSnapshot
           /\ LET geometry == IF audioData
                              THEN createVertexDataFromAudio(
                                     leftChannel, rightChannel,
                                     floorSample(audio.currentTime),
                                     woscopeConfig)
                              ELSE LiveGeometry(cells')
              IN /\ snapshot'[1].numSegments = geometry.numSegments
                 /\ cells'[snapshot'[1].vertices] = geometry.vertices
                 /\ cells'[snapshot'[1].indices] = geometry.indices]_vars

C9_Witness ==
  /\ lastStep.kind = "pause"
  /\ audioData
  /\ snapshot # NoSnapshot
  /\ snapshot[1].numSegments = NSamples - 1

\* C10: while a snapshot is held, no step other than a capture or a play
\* event (frames with their pulls from the tap, the element's changes, the
\* arrival of the decoded track, the ended event) changes the snapshot or
\* the contents of its vertex and index arrays
C10_SnapshotImmutable ==
  [][(snapshot # NoSnapshot /\ ~lastStep'.captured /\ lastStep'.kind # "play")
     => /\ snapshot' = snapshot
        /\ cells'[snapshot[1].vertices] = cells[snapshot[1].vertices]
        /\ cells'[snapshot[1].indices] = cells[snapshot[1].indices]]_vars

C10_Witness ==
  /\ lastStep.kind = "frame"
  /\ lastStep.source = "live"
  /\ analyserLeft
  /\ snapshot # NoSnapshot
  /\ snapshot[1].numSegments > 0
  /\ cells["dataLeft"] # Zeros(Length(cells["dataLeft"]))

\* C11: a capture that follows a capture with nothing in between (the same
\* playback position, the same contents of the source buffers, the same
\* configuration) yields the same segment count, vertex data and index data
C11_CaptureRepeatable ==
  [][(/\ lastStep.captured
      /\ lastStep'.captured
      /\ cells'["dataLeft"] = cells["dataLeft"]
      /\ cells'["dataRight"] = cells["dataRight"])
     => /\ snapshot'[1].numSegments = snapshot[1].numSegments
        /\ cells'[snapshot'[1].vertices] = cells[snapshot[1].vertices]
        /\ cells'[snapshot'[1].indices] = cells[snapshot[1].indices]]_vars

C11_Witness ==
  /\ lastStep.kind = "seeked"
  /\ lastStep.captured
  /\ audioData
  /\ ~woscopeIsPlaying
  /\ audio.currentTime > 0
  /\ currentTime = audio.currentTime
  /\ snapshot # NoSnapshot
  /\ snapshot[1].numSegments > 0

\* the segments of the window that a frame's source supplies
SourceSegments(source, cs) ==
  CASE source = "snapshot" -> snapshot[1].numSegments
    [] source = "live" -> LiveGeometry(cs).numSegments
    [] OTHER -> BufferedGeometry(audio.currentTime).numSegments

\* C12: a frame whose active window has fewer than 2 samples (a start index
\* at or past the end of the decoded track, a snapshot of zero segments)
\* leaves an empty draw range, so that nothing of an earlier frame is drawn,
\* and raises no error
C12_EmptyWindowDrawsNothing ==
  [][(/\ lastStep'.kind = "frame"
      /\ lastStep'.source # "none"
      /\ SourceSegments(lastStep'.source, cells') = 0)
     => drawRange' = 0 /\ ~lastStep'.threw]_vars

(***************************************************************************)
(* Claims about the geometry generator                                     *)
(***************************************************************************)
\* samples of the window of the last call that lie in the track
WindowSamples ==
  Min(gen.config.nSamples, gen.track.length - gen.startSample)

\* C13: with L = min(nSamples, samples available from the start index), the
\* generator returns numSegments = max(0, L - 1), an index array of
\* numSegments * 6 entries and a vertex array of numSegments * 4 * 5 floats
C13_GeometrySizes ==
  gen.called =>
    LET numSegments == Max(0, WindowSamples - 1)
    IN /\ gen.numSegments = numSegments
       /\ gen.indexLength = numSegments * 6
       /\ gen.vertexLength = numSegments * 4 * 5

C13_Witness ==
  /\ gen.called
  /\ WindowSamples = 4
  /\ gen.track.length > gen.config.nSamples
  /\ gen.numSegments = 3
  /\ gen.vertexLength = 60
  /\ gen.indexLength = 18

\* C14: the four vertices of segment i carry the same (start, end), which
\* are window samples i and i + 1 scaled by amplitudeScale (in sweep mode the
\* x coordinate is the sample's time position instead), and the composite
\* indices 4i + 0..3
C14_QuadVertices ==
  (gen.called /\ gen.segment < gen.numSegments) =>
    LET i == gen.segment
        left(k) == leftSample(gen.track, gen.startSample + k)
        right(k) == rightSample(gen.track, gen.startSample + k)
        WindowX(k) ==
          (IF gen.config.swap THEN right(k) ELSE left(k))
            * gen.config.amplitudeScale
        WindowY(k) ==
          (IF gen.config.swap THEN left(k) ELSE right(k))
            * gen.config.amplitudeScale
    IN \A corner \in 0..3 :
         LET f(k) == gen.quad[5 * corner + k]
         IN /\ \A k \in 0..3 : f(k) = gen.quad[k]
            /\ f(4) = 4 * i + corner
            /\ f(1) = WindowY(i)
            /\ f(3) = WindowY(i + 1)
            /\ ~gen.config.sweep
                 => (f(0) = WindowX(i) /\ f(2) = WindowX(i + 1))

C14_Witness ==
  /\ gen.called
  /\ gen.numSegments = 3
  /\ gen.segment = 2
  /\ ~gen.config.sweep /\ ~gen.config.swap /\ ~gen.track.flat
  /\ gen.startSample = 1
  /\ gen.config.amplitudeScale = 2
  /\ gen.quad[5 * 3 + 4] = 11
  /\ gen.quad[5 * 3 + 0] = 8
  /\ gen.quad[5 * 3 + 2] = 10

\* C15: the six index entries of segment i, as stored in the 16-bit index
\* array, are 4i + (0, 1, 2, 1, 2, 3)
C15_QuadIndices ==
  (gen.called /\ gen.segment < gen.numSegments) =>
    \A k \in 0..5 :
      gen.triangles[k] = 4 * gen.segment + <<0, 1, 2, 1, 2, 3>>[k + 1]

\* C18: every emitted coordinate is a finite number, and a segment of zero
\* length takes the fallback branch of both shader stages
C18_NoDivisionByZero ==
  (gen.called /\ gen.segment < gen.numSegments) =>
    LET dir == segmentDir(gen.quad, 0, gen.config.sweep)
    IN /\ dir.finite
       /\ dir.zero => /\ woscopeVertexShader(dir) = "fallback"
                       /\ woscopeFragmentShader(dir) = "fallback"

(***************************************************************************)
(* Claims about the renderer under a changing configuration                *)
(***************************************************************************)
\* the step is a frame that drew: its source had segments and the copy into
\* the backing arrays did not throw
FrameDrew ==
  /\ lastStep'.kind = "frame"
  /\ lastStep'.source # "none"
  /\ ~lastStep'.threw
  /\ SourceSegments(lastStep'.source, cells') > 0

\* C16: after every frame that draws, whatever its source, the intensity
\* uniform is clamp(sqrt(expected / actual), 0.5, 2) with expected =
\* (nSamples - 1) * 6 and actual = the draw count; it lies in [0.5, 2] and is
\* 1 exactly when the two counts are equal (uIntensity holds the square)
C16_NormalizedIntensity ==
  [][FrameDrew =>
       LET expected == (rendererConfig.nSamples - 1) * 6
           actual == drawRange'
           n == uIntensity'[1]
           d == uIntensity'[2]
       IN /\ actual > 0 /\ d > 0
          /\ IF 4 * expected < actual THEN 4 * n = d
             ELSE IF expected > 4 * actual THEN n = 4 * d
             ELSE n * actual = d * expected
          /\ 4 * n >= d /\ n <= 4 * d
          /\ (n = d) <=> (expected = actual)]_vars

C16_Witness ==
  /\ lastStep.kind = "frame" /\ lastStep.source = "buffered" /\ ~lastStep.threw
  /\ rendererConfig.nSamples = 2 * NSamples
  /\ drawRange = 6
  /\ uIntensity = Ratio(4, 1)

\* C17: a frame never throws and, once it has run, the backing arrays have
\* the size of the configured sample count, so a change of nSamples is
\* followed by a reallocation before the next write
C17_ResizeReallocates ==
  [][lastStep'.kind = "frame" /\ lastStep'.source # "none"
       => LET maxSegments == Max(1, rendererConfig.nSamples - 1)
          IN /\ ~lastStep'.threw
             /\ Length(cells'["interleaved"]) = maxSegments * 4 * 5
             /\ Length(cells'["index"]) = maxSegments * 6]_vars

(***************************************************************************)
(* Claims about the transport of Woscope                                   *)
(***************************************************************************)
\* playback has stopped after having played: the element is paused (by
\* pause() or by the end of the track) or stands at the end of the track, and
\* the events of the stop have reached their listeners (only time updates
\* and seeks of the stopped element may wait)
Stopped ==
  /\ transport.played
  /\ audio.paused \/ audio.currentTime >= duration
  /\ \A k \in 1..Len(transport.pending) :
       transport.pending[k] \in {"timeupdate", "seeked"}

C20_CapacityPowerOfTwo ==
  \A n \in Names :
    channels[n].allocated =>
      LET ch == channels[n]
      IN /\ \E k \in 0..30 : ch.capacity = 2 ^ k
         /\ \A index \in {ch.readIndex, ch.writeIndex} :
              BitAnd(index, ch.capacity - 1) = index % ch.capacity

C20_Witness ==
  /\ defaultCapacity = 8
  /\ channels["screenX"].allocated
  /\ channels["screenX"].capacity = 8
  /\ channels["screenX"].writeIndex = 3

(***************************************************************************)
(* Claims about the windows of the three sources                           *)
(***************************************************************************)
\* C21: a capture made while the decoded track is there holds the geometry
\* that the buffered branch generates for the element's time (the tap is not
\* consulted); a capture made without the decoded track holds the geometry
\* of the tap's buffers, in arrays of its own
C21_SnapshotFromDecoded ==
  [][lastStep'.captured =>
       LET snap == snapshot'[1]
           geometry == IF audioData THEN BufferedGeometry(audio.currentTime)
                       ELSE LiveGeometry(cells')
       IN /\ snap.numSegments = geometry.numSegments
          /\ cells'[snap.vertices] = geometry.vertices
          /\ cells'[snap.indices] = geometry.indices
          /\ {snap.vertices, snap.indices} \cap {"dataLeft", "dataRight"} = {}
          /\ audioData => (/\ cells'["dataLeft"] = cells["dataLeft"]
                           /\ cells'["dataRight"] = cells["dataRight"])]_vars

C21_Witness ==
  /\ lastStep.kind = "pause" /\ lastStep.captured
  /\ audioData /\ analyserLeft /\ analyserPull
  /\ audio.currentTime > 0
  /\ snapshot # NoSnapshot
  /\ snapshot[1].numSegments > 0
  /\ cells[snapshot[1].vertices] = BufferedGeometry(audio.currentTime).vertices
  /\ cells["dataLeft"] # Zeros(Length(cells["dataLeft"]))

\* C22: a buffered frame starts at floor(min(t, duration) * sampleRate) and
\* takes the min(nSamples, length - start) samples from there: that window's
\* geometry is what it generates (and draws, when it has a segment), and
\* every index it reads lies inside both channels of the decoded track
C22_BufferedWindowInBounds ==
  [][(lastStep'.kind = "frame" /\ lastStep'.source = "buffered") =>
       LET start == (Min(audio.currentTime, duration) * SampleRate)
                      \div TicksPerSecond
           window == Min(rendererConfig.nSamples, Length(leftChannel) - start)
           geometry == BufferedGeometry(audio.currentTime)
           indices == samplesRead(start, geometry.numSegments)
       IN /\ geometry.numSegments = Max(0, window - 1)
          /\ indices \subseteq DOMAIN leftChannel
          /\ indices \subseteq DOMAIN rightChannel
          /\ cells'["frameVertices"] = geometry.vertices
          /\ (geometry.numSegments > 0) =>
               (~lastStep'.threw /\ Draws(cells', drawRange', geometry))]_vars

C22_Witness ==
  /\ lastStep.kind = "frame" /\ lastStep.source = "buffered"
  /\ audio.currentTime = TicksPerSecond + 1
  /\ drawRange = 6
  /\ cells["frameVertices"] = BufferedGeometry(audio.currentTime).vertices
  /\ samplesRead(1, 1) = {1, 2}

\* C23: a live frame generates, from start index 0, the geometry of the most
\* recent nSamples samples that the tap holds: the window ends with the
\* newest sample of the analysers' block
C23_LiveWindowMostRecent ==
  [][(lastStep'.kind = "frame" /\ lastStep'.source = "live") =>
       LET n == tapSamples(audioData)
           heldLeft == cells'["dataLeft"]
           heldRight == cells'["dataRight"]
           recentLeft == subarray(heldLeft, Max(0, Length(heldLeft) - n),
                                  Length(heldLeft))
           recentRight == subarray(heldRight, Max(0, Length(heldRight) - n),
                                   Length(heldRight))
           geometry == createVertexDataFromAudio(recentLeft, recentRight, 0,
                                                 rendererConfig)
       IN cells'["frameVertices"] = geometry.vertices]_vars

\* C24: in sweep mode, for every segment i of the window, the first
\* coordinate of the segment's start point is i/numSegments x timeScale and
\* the first coordinate of its end point is (i+1)/numSegments x timeScale,
\* while the second coordinates are the amplitude-scaled channel values.
\* A sweep coordinate n/d equals p/q exactly when d # 0 and n * q = p * d.
C24_SweepRamp ==
  (gen.called /\ gen.config.sweep /\ gen.segment < gen.numSegments) =>
    LET i == gen.segment
        left(k) == leftSample(gen.track, gen.startSample + k)
        right(k) == rightSample(gen.track, gen.startSample + k)
        WindowY(k) ==
          (IF gen.config.swap THEN left(k) ELSE right(k))
            * gen.config.amplitudeScale
        equals(q, n, d) == q[2] # 0 /\ q[1] * d = n * q[2]
    IN /\ equals(gen.quad[0], i * gen.config.timeScale, gen.numSegments)
       /\ equals(gen.quad[2], (i + 1) * gen.config.timeScale, gen.numSegments)
       /\ gen.quad[1] = WindowY(i)
       /\ gen.quad[3] = WindowY(i + 1)

\* C25: for every vertex of segment i, with composite index 4i + corner, the
\* segment age that the vertex stage passes to the fragment stage equals
\* floor(idx / 4) = i, the same for all four corners of the segment.
C25_SegmentAgePerQuad ==
  (gen.called /\ gen.segment < gen.numSegments) =>
    \A corner \in 0..3 :
      LET idx == gen.quad[5 * corner + 4]
      IN /\ idx = 4 * gen.segment + corner
         /\ uvlW(idx) = idx \div 4
         /\ uvlW(idx) = gen.segment

(***************************************************************************)
(* Claims about the renderer's storage and uniforms                        *)
(***************************************************************************)
\* C26: with a fixed configuration the geometry buffers are allocated once,
\* for nSamples - 1 quads, and reused by every later step; after every frame
\* that draws, whatever its source, the draw range is 6 x (segments of that
\* frame's window), it does not exceed the allocated index length
\* 6 x (nSamples - 1), and the vertex data written fits the allocated
\* vertex storage (the copy does not throw)
C26_BuffersAllocatedOnce ==
  [][LET quads == rendererConfig.nSamples - 1
         segments == SourceSegments(lastStep'.source, cells')
     IN /\ rendererConfig' = rendererConfig
        /\ hasAttributes =>
             /\ hasAttributes'
             /\ Length(cells'["interleaved"]) = Length(cells["interleaved"])
             /\ Length(cells'["index"]) = Length(cells["index"])
        /\ hasAttributes' =>
             /\ Length(cells'["interleaved"]) = quads * 4 * 5
             /\ Length(cells'["index"]) = quads * 6
        /\ (/\ lastStep'.kind = "frame"
            /\ lastStep'.source # "none"
            /\ segments > 0)
           => /\ ~lastStep'.threw
              /\ drawRange' = 6 * segments
              /\ drawRange' <= 6 * quads
              /\ drawRange' <= Length(cells'["index"])
              /\ segments * 4 * 5 <= Length(cells'["interleaved"])]_vars

\* a frame drew a window that the end of the decoded track cut short, into
\* storage allocated for the full window
C26_Witness ==
  /\ lastStep.kind = "frame"
  /\ lastStep.source = "buffered"
  /\ ~lastStep.threw
  /\ hasAttributes
  /\ Length(cells["index"]) = 6 * (NSamples - 1)
  /\ drawRange = 6 * BufferedGeometry(audio.currentTime).numSegments
  /\ drawRange > 0
  /\ drawRange < Length(cells["index"])

\* C27: on every rendered frame the afterglow uniform uN equals the
\* renderer's configured nSamples, also when that differs from the shader's
\* default, so that the age of every drawn segment divided by uN lies in
\* [0, 1]
C27_AfterglowUniformInSync ==
  [][LET segments == SourceSegments(lastStep'.source, cells')
         uN == shaderMaterial(rendererConfig').uN
     IN (/\ lastStep'.kind = "frame"
         /\ lastStep'.source # "none"
         /\ ~lastStep'.threw
         /\ segments > 0)
        => /\ uN = rendererConfig'.nSamples
           /\ \A corner \in 0..3 :
                uvlW(aIdx(segments - 1, corner)) <= Max(1, uN)]_vars

(***************************************************************************)
(* Claims about the six channels of the worklet together                   *)
(***************************************************************************)
\* batches that carry samples for all six channels: of equal lengths, or
\* with the array of the last channel of another length than the others
SixLengths ==
  {len \in Lengths :
     /\ \A n \in Names : len[n] > 0
     /\ \A n \in Names \ {channelNames[Len(channelNames)]} :
          len[n] = len[channelNames[1]]}

\* the worklet fed with six-channel messages and serving six outputs
NextAligned ==
  \/ \E capacity \in CapacityRequests : InitRingBuffers(capacity)
  \/ \E len \in SixLengths : AppendVertexData(len)
  \/ \E len \in SixLengths : UpdateVertexData(len)
  \/ \E playing \in BOOLEAN : SetPlaying(playing)
  \/ Process(Len(channelNames))

SpecAligned == Init /\ [][NextAligned]_vars

\* C28: after any sequence of initRingBuffers, appendVertexData and
\* updateVertexData messages that each carry all six channels, with equal or
\* unequal array lengths, and of process() calls serving six outputs, all six
\* channels have the same writeIndex and the same number of unread samples
C28_ChannelsAligned ==
  \A a, b \in Names :
    /\ channels[a].writeIndex = channels[b].writeIndex
    /\ getAvailable(channels[a]) = getAvailable(channels[b])

(***************************************************************************)
(* Claims about process()                                                  *)
(***************************************************************************)
\* the worklet with its gain messages
NextPlayback ==
  \/ \E capacity \in CapacityRequests : InitRingBuffers(capacity)
  \/ \E len \in ActiveLengths : AppendVertexData(len)
  \/ \E name \in ActiveNames, gain \in Gains : SetChannelGain(name, gain)
  \/ \E gain \in Gains : SetGlobalGain(gain)
  \/ \E playing \in BOOLEAN : SetPlaying(playing)
  \/ \E nOut \in OutputCounts : Process(nOut)

SpecPlayback == Init /\ [][NextPlayback]_vars

\* the unread samples of a channel; samples are numbered in the order in
\* which they are handed to the channel, so the oldest has the least number
UnreadSet(ch) == {Unread(ch)[i] : i \in DOMAIN Unread(ch)}

\* the i-th oldest of a set of samples
Oldest(samples, i) ==
  CHOOSE s \in samples : Cardinality({r \in samples : r < s}) = i - 1

Silence == [i \in 1..FrameCount |-> 0]

\* what a process() call that serves nOut outputs does in the present state,
\* the underruns being counted for the served channels in fellShort
ProcessServes(nOut, fellShort) ==
  LET done == process(channels, underruns, globalGain, isPlaying, nOut)
      served == 1..Min(nOut, Len(channelNames))
  IN /\ DOMAIN done.out = 1..nOut
     /\ IF ~isPlaying
        THEN /\ \A c \in 1..nOut : done.out[c] = Silence
             /\ \A n \in Names : done.channels[n].readIndex = channels[n].readIndex
             /\ done.underruns = underruns
        ELSE /\ \A c \in served :
                  LET ch == channels[channelNames[c]]
                      after == done.channels[channelNames[c]]
                      count == Min(FrameCount, getAvailable(ch))
                  IN /\ \A i \in 1..FrameCount :
                          done.out[c][i] =
                            IF i <= count
                            THEN Oldest(UnreadSet(ch), i) * ch.gain * globalGain
                            ELSE 0
                     /\ after.readIndex = ch.readIndex + count
                     /\ after.readIndex <= after.writeIndex
                     /\ after.writeIndex = ch.writeIndex
             /\ \A c \in (1..Len(channelNames)) \ served :
                  done.channels[channelNames[c]] = channels[channelNames[c]]
             /\ done.underruns = underruns + Cardinality(fellShort)

\* C29 as stated: every served channel with fewer than frameCount unread
\* samples counts one underrun
C29_Original ==
  \A nOut \in OutputCounts :
    ProcessServes(nOut,
                  {c \in 1..nOut :
                     getAvailable(channels[channelNames[c]]) < FrameCount})

\* C29 amended: each process() call while playing outputs, for every served
\* channel, the oldest min(frameCount, unread) unread samples in FIFO order,
\* scaled by the channel and global gains, followed by zeros, advances
\* readIndex by exactly that many and never past writeIndex, and counts one
\* underrun per served channel that has a buffer and fell short (a channel
\* that was never written outputs zeros and counts nothing); while not
\* playing it outputs only zeros and leaves every readIndex unchanged
C29_ProcessFifo ==
  /\ []\A nOut \in OutputCounts :
         ProcessServes(nOut,
                       {c \in 1..nOut :
                          /\ channels[channelNames[c]].allocated
                          /\ getAvailable(channels[channelNames[c]]) < FrameCount})
  /\ [][\A nOut \in OutputCounts :
          Process(nOut) =>
            /\ channels' = process(channels, underruns, globalGain, isPlaying,
                                   nOut).channels
            /\ underruns' = process(channels, underruns, globalGain, isPlaying,
                                    nOut).underruns]_vars

\* a playing channel holds more unread samples than one call reads, under
\* gains other than 1, after an earlier call has read and another has fallen
\* short
C29_Witness ==
  /\ isPlaying
  /\ globalGain = 2
  /\ channels["screenX"].gain = 2
  /\ channels["screenX"].readIndex > 0
  /\ getAvailable(channels["screenX"]) > FrameCount
  /\ underruns > 0

(***************************************************************************)
(* Claims about peeks into buffers longer than the ring                    *)
(***************************************************************************)
\* samples the producer writes to each channel over a run with long peeks
LongWritten == 2 * sabCapacity + 1

\* windowSize props up to more than twice the capacity
LongWindowSizes == {1, sabCapacity, sabCapacity + 1, sabCapacity + 2,
                    2 * sabCapacity + 1}

\* a view peeking, ahead of or behind the producer, into buffers of any length
NextPeek ==
  \/ Initialize(AnalyserCount)
  \/ \E q \in Quanta : ProducerWriteUpTo(q, LongWritten)
  \/ \E windowSize \in LongWindowSizes : Mount("DebugWaveformView", windowSize)
  \/ \E channelIndex \in 0..(sabChannels - 1), endSample \in 0..LongWritten :
       GetSamplesForChannel("DebugWaveformView", channelIndex, endSample)

SpecPeek == Init /\ [][NextPeek]_vars

\* C30: for every endSample and every output-buffer length, also lengths
\* greater than the ring capacity, a peek on channel c reads only slots of
\* channel c's own region [c x capacity, (c + 1) x capacity) of the sample
\* store, does not throw (what it copies fits the output buffer), and returns
\* a count equal to the number of samples it copied
C30_PeekStaysInRegion ==
  [][(PeekStep /\ lastPeek'.op = "getSamplesForChannel" /\ sabReady)
     => LET k == lastPeek'.consumer
            c == lastPeek'.channelIndex
            slots == copySlots(Length(sabSamples), ctrl[WRITE_IDX], c,
                               lastPeek'.endSample, Length(sampleBuf[k]))
        IN /\ \A i \in 1..Len(slots) :
                /\ c * sabCapacity <= slots[i]
                /\ slots[i] < (c + 1) * sabCapacity
                /\ sampleBuf'[k][i - 1] = sabSamples[slots[i]]
           /\ Len(slots) <= Length(sampleBuf[k])
           /\ lastPeek'.ret = Len(slots)]_vars

====
